---------------------------- MODULE Spec2Model ----------------------------
(***************************************************************************)
(* A model of the move engine (src/src/filesystem.py), the execute handler *)
(* (src/src/api.py, execute_moves), the undo ledger (src/src/undo.py) and  *)
(* the scan scheduler (src/src/api.py, scan_files / process_file).         *)
(*                                                                         *)
(* A file name is a sequence of one-character strings, a directory is a    *)
(* sequence of directory names (<<>> is the filesystem root), and a path   *)
(* is a record [dir, name].  The filesystem is `fs` (existing file paths   *)
(* to the identity of the file stored there) and `dirs` (the existing      *)
(* directories).                                                           *)
(***************************************************************************)
EXTENDS Integers, Sequences, FiniteSets, TLC

VARIABLES
    fs,           \* the files: a function from the existing paths to file ids
    dirs,         \* the existing directories
    source_root,  \* config.SOURCE_DIR: {} (None) or a singleton {dir}
    history,      \* UndoManager.history, most recent batch first
    ledger,       \* the content of HISTORY_FILE
    pc,           \* the position of the execute / undo handler
    request,      \* execute: request.files and the position of the loop in it
    cur,          \* execute: the locals of the current loop iteration
    moved,        \* execute: the list `moved`
    errors,       \* execute: the list `errors`
    undo_ops,     \* undo: the operations of the batch not yet attempted
    undo_result,  \* undo: restored / failure counts and the returned report
    nExec,        \* number of execute requests started
    nEnv,         \* number of changes made to the filesystem from outside
    g_move,       \* observation of the last move_file call
    g_clean,      \* observation of the last clean_empty_dirs call
    g_undo,       \* observation of the undo call in progress / last finished
    scan,         \* the state of one scan_files run
    rn            \* the state of one parse_filename / propose_new_path run

vars == <<fs, dirs, source_root, history, ledger, pc, request, cur, moved,
          errors, undo_ops, undo_result, nExec, nEnv, g_move, g_clean,
          g_undo, scan, rn>>

---------------------------------------------------------------------------
(* Bounds of the model.                                                    *)

\* items in one execute request
MaxReq == 2
\* execute requests in one behaviour
MaxBatches == 2
\* outside changes to the filesystem in one behaviour
MaxEnv == 1

---------------------------------------------------------------------------
(* Strings and pathlib.                                                    *)

Max(S) == CHOOSE x \in S : \A y \in S : y <= x

DigitChar(d) == <<"0", "1", "2", "3", "4", "5", "6", "7", "8", "9">>[d + 1]

\* str(n) for n >= 0
RECURSIVE IntToStr(_)
IntToStr(n) ==
    IF n < 10 THEN <<DigitChar(n)>>
    ELSE IntToStr(n \div 10) \o <<DigitChar(n % 10)>>

\* name.rfind('.') as a 1-based index, 0 when there is no dot
RFindDot(name) ==
    LET I == {i \in 1..Len(name) : name[i] = "."}
    IN IF I = {} THEN 0 ELSE Max(I)

\* PurePath.suffix: name[i:] when 0 < i < len(name) - 1 (0-based), else ''
Suffix(name) ==
    LET i == RFindDot(name)
    IN IF 1 < i /\ i < Len(name) THEN SubSeq(name, i, Len(name)) ELSE <<>>

\* PurePath.stem
Stem(name) ==
    LET i == RFindDot(name)
    IN IF 1 < i /\ i < Len(name) THEN SubSeq(name, 1, i - 1) ELSE name

\* str.startswith
StartsWith(s, prefix) ==
    Len(prefix) <= Len(s) /\ SubSeq(s, 1, Len(prefix)) = prefix

Path(d, n) == [dir |-> d, name |-> n]

\* Path.parent of a directory; the parent of the root is the root
Parent(d) == IF d = <<>> THEN <<>> ELSE SubSeq(d, 1, Len(d) - 1)

\* d and all its ancestors
Ancestors(d) == {SubSeq(d, 1, k) : k \in 0..Len(d)}

Exists(f, p) == p \in DOMAIN f

\* the files directly in directory d
FilesIn(f, d) == {p \in DOMAIN f : p.dir = d}

\* the directories directly in directory d
SubDirs(ds, d) == {e \in ds : e # <<>> /\ Parent(e) = d}

---------------------------------------------------------------------------
(* src/src/filesystem.py                                                   *)

\* f"{stem} ({counter}){suffix}" under the parent of `path`
CounterPath(path, counter) ==
    Path(path.dir,
         Stem(path.name) \o <<" ", "(">> \o IntToStr(counter) \o <<")">>
             \o Suffix(path.name))

\* the while loop of get_unique_path, entered with `counter`
RECURSIVE UniqueFrom(_, _, _)
UniqueFrom(f, path, counter) ==
    LET new_path == CounterPath(path, counter)
    IN IF ~Exists(f, new_path) THEN new_path
       ELSE UniqueFrom(f, path, counter + 1)

\* a variant that tries the counter 1 only
get_unique_path_once(f, path) ==
    IF ~Exists(f, path) THEN path ELSE CounterPath(path, 1)

get_unique_path(f, path) ==
    IF ~Exists(f, path) THEN path ELSE UniqueFrom(f, path, 1)

\* the separators accepted after the stem
Separators == {".", "-", "_", " "}

\* a variant that accepts any name starting with the stem
IsAssociated_prefix(main_file, item) ==
    /\ item # main_file
    /\ StartsWith(item.name, Stem(main_file.name))

\* the test made on one directory entry `item`
IsAssociated(main_file, item) ==
    LET name_stem == Stem(main_file.name)
    IN /\ item # main_file
       /\ StartsWith(item.name, name_stem)
       /\ LET remainder == SubSeq(item.name, Len(name_stem) + 1, Len(item.name))
          IN /\ remainder # <<>>
             /\ remainder[1] \in Separators

\* the set of paths in the returned list (its order is that of iterdir)
find_associated_files(f, main_file) ==
    IF ~Exists(f, main_file) THEN {}
    ELSE {item \in FilesIn(f, main_file.dir) : IsAssociated(main_file, item)}

\* shutil.move of a file onto a path that is no directory: os.rename, which
\* replaces a file already at dst
shutil_move(f, src, dst) ==
    [p \in (DOMAIN f \ {src}) \cup {dst} |-> IF p = dst THEN f[src] ELSE f[p]]

\* Path.mkdir(parents=True, exist_ok=True)
mkdir_parents(ds, d) == ds \cup Ancestors(d)

\* a variant that moves onto the destination as given
move_file_overwrite(f, ds, source, destination) ==
    [final |-> destination,
     fs    |-> shutil_move(f, source, destination),
     dirs  |-> mkdir_parents(ds, destination.dir)]

\* move_file for an existing source: the final path, the files, the directories
move_file(f, ds, source, destination) ==
    LET final_dest == get_unique_path(f, destination)
    IN [final |-> final_dest,
        fs    |-> shutil_move(f, source, final_dest),
        dirs  |-> mkdir_parents(ds, destination.dir)]

\* any(path.iterdir()) is false
IsEmptyDir(f, ds, d) == FilesIn(f, d) = {} /\ SubDirs(ds, d) = {}

\* a variant that does not stop at the root
RECURSIVE clean_empty_dirs_no_root(_, _, _, _)
clean_empty_dirs_no_root(f, ds, path, root) ==
    IF path \notin ds THEN ds
    ELSE IF IsEmptyDir(f, ds, path)
         THEN IF path = <<>> THEN ds
              ELSE clean_empty_dirs_no_root(f, ds \ {path}, Parent(path), root)
         ELSE ds

\* clean_empty_dirs: the directories left.  root is {} for root_path None.
\* rmdir of the filesystem root raises OSError, which is swallowed.
RECURSIVE clean_empty_dirs(_, _, _, _)
clean_empty_dirs(f, ds, path, root) ==
    IF path \notin ds THEN ds
    ELSE IF root # {} /\ path \in root THEN ds
    ELSE IF IsEmptyDir(f, ds, path)
         THEN IF path = <<>> THEN ds
              ELSE clean_empty_dirs(f, ds \ {path}, Parent(path), root)
         ELSE ds


---------------------------------------------------------------------------
(* The universe of the model: two source directories below the configured  *)
(* source root and one folder below the destination root.                  *)

SRC == <<"src">>
SA  == <<"src", "a">>
DST == <<"dst">>
DM  == <<"dst", "M">>

\* the files that may exist before the first request; a file's id is its
\* index in this list
InitialFiles ==
    << Path(SA, <<"X", ".", "m">>),
       Path(SA, <<"X", ".", "s">>),
       Path(SA, <<"X", "-", "t", ".", "s">>),
       Path(SA, <<"X", "T", ".", "m">>),
       Path(DM, <<"Y", ".", "m">>),
       Path(DM, <<"Y", ".", "s">>) >>

\* original_path of a request item
Originals == {InitialFiles[1], InitialFiles[4]}

\* base_dir / new_relative: decided by the candidate the caller selected
Targets == {InitialFiles[5], InitialFiles[1]}

\* the items of an execute request
Items == [original : Originals, target : Targets]

Requests == UNION {[1..n -> Items] : n \in 1..MaxReq}

FileSets == SUBSET (1..Len(InitialFiles))

InitFs(S) == [p \in {InitialFiles[i] : i \in S} |->
                 CHOOSE i \in S : InitialFiles[i] = p]

\* the directories of a filesystem holding the files of f
DirsOf(f) == UNION {Ancestors(p.dir) : p \in DOMAIN f}

---------------------------------------------------------------------------
(* src/src/undo.py: the ledger                                             *)

\* self.history = self.history[:50]
HistoryLimit == 50

\* a variant that keeps every batch
record_batch_unbounded(h, operations, batch_id) ==
    IF operations = <<>> THEN h
    ELSE <<[batch_id |-> batch_id, operations |-> operations]>> \o h

\* record_batch(operations): the new history.  batch_id stands for the uuid
\* and the timestamp: a batch recorded later has a larger one.
record_batch(h, operations, batch_id) ==
    IF operations = <<>> THEN h
    ELSE LET entry == [batch_id |-> batch_id, operations |-> operations]
             h1 == <<entry>> \o h
         IN SubSeq(h1, 1, IF Len(h1) < HistoryLimit THEN Len(h1) ELSE HistoryLimit)

\* a variant that drops the oldest batch
history_pop_last(h) == SubSeq(h, 1, Len(h) - 1)

\* self.history.pop(0)
history_pop(h) == Tail(h)

\* a variant that leaves the file as it was
save_history_skipped(file, h) == file

\* _save_history: write_text replaces the whole content of the file by the
\* dump of the history.  A file is given by what _load_history reads from
\* it (the empty list for a missing or unreadable file);
\* batches are lists of objects with string keys and string or boolean
\* values, which json.dumps and json.loads carry over unchanged.
save_history(file, h) == h

\* a variant that keeps the recorded order
RecordedOrder(s) == s

\* reversed(ops)
Reversed(s) == [i \in 1..Len(s) |-> s[Len(s) + 1 - i]]

---------------------------------------------------------------------------
(* The initial state.                                                      *)

ScanOff == [pc |-> "off"]

\* no parse_filename / propose_new_path run
RnOff == [pc |-> "off"]

InitMove ==
    /\ \E S \in FileSets :
          /\ fs = InitFs(S)
          /\ dirs = {<<>>, SRC, DST} \cup DirsOf(InitFs(S))
    /\ source_root \in {{}, {SRC}}
    /\ history = <<>>
    /\ ledger = <<>>
    /\ pc = "idle"
    /\ request = <<>>
    /\ cur = <<>>
    /\ moved = <<>>
    /\ errors = <<>>
    /\ undo_ops = <<>>
    /\ undo_result = <<>>
    /\ nExec = 0
    /\ nEnv = 0
    /\ g_move = <<>>
    /\ g_clean = <<>>
    /\ g_undo = <<>>

Init == InitMove /\ scan = ScanOff /\ rn = RnOff

---------------------------------------------------------------------------
(* src/src/api.py: execute_moves                                           *)

\* the request arrives: moved = [], errors = [].  The behaviours explored
\* make their outside changes after their last execute request.
ExecStart(req) ==
    /\ pc = "idle"
    /\ nExec < MaxBatches
    /\ nEnv = 0
    /\ nExec' = nExec + 1
    /\ request' = [files |-> req, next |-> 1]
    /\ moved' = <<>>
    /\ errors' = <<>>
    /\ cur' = <<>>
    /\ pc' = "exec_item"
    /\ UNCHANGED <<fs, dirs, source_root, history, ledger, undo_ops,
                   undo_result, nEnv, g_move, g_clean, g_undo, scan, rn>>

\* a variant that leaves the loop after a missing file
after_not_found_break == "exec_record"

\* errors.append(...); continue: on to the head of the loop
after_not_found == "exec_item"

\* the head of the loop over request.files, up to find_associated_files.
\* g_item is the position of the item in request.files.
ExecItem ==
    /\ pc = "exec_item"
    /\ IF request.next > Len(request.files)
       THEN /\ pc' = "exec_record"
            /\ UNCHANGED <<request, cur, errors>>
       ELSE LET file_info == request.files[request.next]
                original == file_info.original
            IN /\ request' = [request EXCEPT !.next = @ + 1]
               /\ IF ~Exists(fs, original)
                  THEN /\ errors' = Append(errors, [file |-> original,
                                                    error |-> "File not found",
                                                    g_item |-> request.next])
                       /\ pc' = after_not_found
                       /\ UNCHANGED cur
                  ELSE /\ cur' = <<[original |-> original,
                                   g_item |-> request.next,
                                   target_main |-> file_info.target,
                                   final_target |-> <<>>,
                                   associated_files |->
                                       find_associated_files(fs, original),
                                   todo |-> find_associated_files(fs, original),
                                   g_pre |-> fs]>>
                       /\ pc' = "exec_main"
                       /\ UNCHANGED errors
    /\ UNCHANGED <<fs, dirs, source_root, history, ledger, moved, undo_ops,
                   undo_result, nExec, nEnv, g_move, g_clean, g_undo, scan, rn>>

\* final_target = filesystem.move_file(original, target_main); moved.append
ExecMoveMain ==
    /\ pc = "exec_main"
    /\ LET c == cur[1]
           r == move_file(fs, dirs, c.original, c.target_main)
       IN /\ fs' = r.fs
          /\ dirs' = r.dirs
          /\ moved' = Append(moved, [src |-> c.original, dest |-> r.final,
                                     associated |-> FALSE,
                                     g_item |-> c.g_item,
                                     g_id |-> fs[c.original],
                                     g_final |-> r.final])
          /\ cur' = <<[c EXCEPT !.final_target = <<r.final>>]>>
          /\ g_move' = <<[source |-> c.original, destination |-> c.target_main,
                          final |-> r.final, before |-> fs, after |-> r.fs]>>
    /\ pc' = "exec_assoc"
    /\ UNCHANGED <<source_root, history, ledger, request, errors, undo_ops,
                   undo_result, nExec, nEnv, g_clean, g_undo, scan, rn>>

\* a variant that keeps the name of the associated file
target_assoc_keep_name(original, final_target, assoc) ==
    Path(final_target.dir, assoc.name)

\* the name given to an associated file: final_target.stem + suffix_part
target_assoc_of(original, final_target, assoc) ==
    LET suffix_part == SubSeq(assoc.name, Len(Stem(original.name)) + 1,
                              Len(assoc.name))
        new_assoc_name == Stem(final_target.name) \o suffix_part
    IN Path(final_target.dir, new_assoc_name)

\* the dest written to the record of an associated file
assoc_record_dest(target_assoc, landed) == target_assoc

\* one iteration of the loop over associated_files (the list is in iterdir
\* order, which is not specified: any file left may come next)
ExecMoveAssoc ==
    /\ pc = "exec_assoc"
    /\ \E assoc \in cur[1].todo :
          LET c == cur[1]
              target_assoc == target_assoc_of(c.original, c.final_target[1], assoc)
              r == move_file(fs, dirs, assoc, target_assoc)
          IN /\ cur' = <<[c EXCEPT !.todo = @ \ {assoc}]>>
             /\ IF ~Exists(fs, assoc)
                THEN \* FileNotFoundError, caught and printed
                     UNCHANGED <<fs, dirs, moved, g_move>>
                ELSE /\ fs' = r.fs
                     /\ dirs' = r.dirs
                     /\ moved' = Append(moved,
                            [src |-> assoc,
                             dest |-> assoc_record_dest(target_assoc, r.final),
                             associated |-> TRUE,
                             g_item |-> c.g_item,
                             g_id |-> fs[assoc],
                             g_final |-> r.final])
                     /\ g_move' = <<[source |-> assoc, destination |-> target_assoc,
                                     final |-> r.final, before |-> fs,
                                     after |-> r.fs]>>
    /\ UNCHANGED <<source_root, history, ledger, pc, request, errors, undo_ops,
                   undo_result, nExec, nEnv, g_clean, g_undo, scan, rn>>

\* a variant that cleans up while associated files are still to be moved
assoc_loop_done_early(c) == TRUE

\* the loop over associated_files has run out
assoc_loop_done(c) == c.todo = {}

\* filesystem.clean_empty_dirs(original.parent, root_path=source_root)
ExecClean ==
    /\ pc = "exec_assoc"
    /\ assoc_loop_done(cur[1])
    /\ LET path == cur[1].original.dir
           after == clean_empty_dirs(fs, dirs, path, source_root)
       IN /\ dirs' = after
          /\ g_clean' = <<[path |-> path, root |-> source_root,
                           files |-> DOMAIN fs, before |-> dirs,
                           after |-> after]>>
    /\ pc' = "exec_item"
    /\ UNCHANGED <<fs, source_root, history, ledger, request, cur, moved,
                   errors, undo_ops, undo_result, nExec, nEnv, g_move, g_undo,
                   scan, rn>>

\* if moved: undo_manager.record_batch(moved)
ExecRecord ==
    /\ pc = "exec_record"
    /\ history' = record_batch(history, moved, nExec)
    /\ ledger' = IF moved = <<>> THEN ledger
                              ELSE save_history(ledger, history')
    /\ pc' = "exec_return"
    /\ UNCHANGED <<fs, dirs, source_root, request, cur, moved, errors,
                   undo_ops, undo_result, nExec, nEnv, g_move, g_clean,
                   g_undo, scan, rn>>

\* return {"moved": moved, "errors": errors}: the locals are gone
ExecReturn ==
    /\ pc = "exec_return"
    /\ pc' = "idle"
    /\ cur' = <<>>
    /\ moved' = <<>>
    /\ errors' = <<>>
    /\ g_move' = <<>>
    /\ g_clean' = <<>>
    /\ request' = <<>>
    /\ UNCHANGED <<fs, dirs, source_root, history, ledger, undo_ops,
                   undo_result, nExec, nEnv, g_undo, scan, rn>>

---------------------------------------------------------------------------
(* src/src/undo.py: undo_last_batch                                        *)

\* undo.py:55-56: the report returned when the history is empty
no_history_success == [success |-> TRUE, message |-> "No history found."]

no_history == [success |-> FALSE, message |-> "No history found."]

\* undo.py:72-74: the file recorded at dest is no longer there
dest_missing(f, dest) == ~Exists(f, dest)

\* undo.py:76-81: the original location is blocked
src_occupied_ignored(f, src) == FALSE

src_occupied(f, src) == Exists(f, src)

\* a variant in which a skipped record leaves no entry in failures
failures_append_lost(n) == n

\* undo.py:73, 80: failures.append(...); n is len(failures)
failures_append(n) == n + 1

\* the call, up to the start of the loop over reversed(ops)
UndoStart ==
    /\ pc = "idle"
    /\ IF history = <<>>
       THEN /\ undo_result' = <<no_history>>
            /\ pc' = "undo_return"
            /\ UNCHANGED undo_ops
            /\ g_undo' = <<[hist |-> history, pre |-> fs, pre_dirs |-> dirs,
                            attempted |-> <<>>]>>
       ELSE /\ undo_ops' = Reversed(history[1].operations)
            /\ undo_result' = <<[success |-> TRUE, restored_count |-> 0,
                                 failure_count |-> 0]>>
            /\ pc' = "undo_loop"
            /\ g_undo' = <<[hist |-> history, pre |-> fs, pre_dirs |-> dirs,
                            attempted |-> <<>>]>>
    /\ UNCHANGED <<fs, dirs, source_root, history, ledger, request, cur,
                   moved, errors, nExec, nEnv, g_move, g_clean, scan, rn>>

\* a variant that stops the pruning at the destination root
undo_clean_root_dest == {DST}

\* filesystem.clean_empty_dirs(dest.parent): root_path is None
undo_clean_root == {}

\* one iteration of the loop over reversed(ops)
UndoStep ==
    /\ pc = "undo_loop"
    /\ undo_ops # <<>>
    /\ LET op == Head(undo_ops)
           src == op.src
           dest == op.dest
           res == undo_result[1]
       IN /\ undo_ops' = Tail(undo_ops)
          /\ g_undo' = <<[g_undo[1] EXCEPT !.attempted = Append(@, op)]>>
          /\ IF dest_missing(fs, dest)
             THEN /\ undo_result' =
                         <<[res EXCEPT !.failure_count = failures_append(@)]>>
                  /\ UNCHANGED <<fs, dirs, g_clean>>
             ELSE IF src_occupied(fs, src)
             THEN /\ undo_result' =
                         <<[res EXCEPT !.failure_count = failures_append(@)]>>
                  /\ UNCHANGED <<fs, dirs, g_clean>>
             ELSE LET fs1 == shutil_move(fs, dest, src)
                      dirs1 == mkdir_parents(dirs, src.dir)
                      dirs2 == clean_empty_dirs(fs1, dirs1, dest.dir,
                                               undo_clean_root)
                  IN /\ fs' = fs1
                     /\ dirs' = dirs2
                     /\ undo_result' =
                            <<[res EXCEPT !.restored_count = @ + 1]>>
                     /\ g_clean' = <<[path |-> dest.dir, root |-> undo_clean_root,
                                      files |-> DOMAIN fs1, before |-> dirs1,
                                      after |-> dirs2]>>
    /\ UNCHANGED <<source_root, history, ledger, pc, request, cur, moved,
                   errors, nExec, nEnv, g_move, scan, rn>>

\* self.history.pop(0); self._save_history()
UndoFinish ==
    /\ pc = "undo_loop"
    /\ undo_ops = <<>>
    /\ history' = history_pop(history)
    /\ ledger' = save_history(ledger, history')
    /\ pc' = "undo_return"
    /\ UNCHANGED <<fs, dirs, source_root, request, cur, moved, errors,
                   undo_ops, undo_result, nExec, nEnv, g_move, g_clean,
                   g_undo, scan, rn>>

\* return of undo_last_batch: the report has been handed to the caller
UndoReturn ==
    /\ pc = "undo_return"
    /\ pc' = "idle"
    /\ undo_result' = <<>>
    /\ g_undo' = <<>>
    /\ g_clean' = <<>>
    /\ UNCHANGED <<fs, dirs, source_root, history, ledger, request, cur,
                   moved, errors, undo_ops, nExec, nEnv, g_move, scan, rn>>

---------------------------------------------------------------------------
(* Changes made to the filesystem from outside, between two requests,      *)
(* while a batch is on the ledger: a file the head batch recorded as moved *)
(* is deleted, or a file appears at a path the head batch moved one from.  *)

HeadDests == {history[1].operations[i].dest :
                 i \in 1..Len(history[1].operations)}

HeadSrcs == {history[1].operations[i].src :
                 i \in 1..Len(history[1].operations)}

\* the id of a file created from outside
EnvId == Len(InitialFiles) + 1

EnvDelete(p) ==
    /\ pc = "idle"
    /\ history # <<>>
    /\ nEnv < MaxEnv
    /\ p \in HeadDests
    /\ Exists(fs, p)
    /\ fs' = [q \in DOMAIN fs \ {p} |-> fs[q]]
    /\ nEnv' = nEnv + 1
    /\ UNCHANGED <<dirs, source_root, history, ledger, pc, request, cur,
                   moved, errors, undo_ops, undo_result, nExec, g_move,
                   g_clean, g_undo, scan, rn>>

EnvCreate(p) ==
    /\ pc = "idle"
    /\ history # <<>>
    /\ nEnv < MaxEnv
    /\ p \in HeadSrcs
    /\ ~Exists(fs, p)
    /\ fs' = [q \in DOMAIN fs \cup {p} |-> IF q = p THEN EnvId + nEnv ELSE fs[q]]
    /\ dirs' = mkdir_parents(dirs, p.dir)
    /\ nEnv' = nEnv + 1
    /\ UNCHANGED <<source_root, history, ledger, pc, request, cur, moved,
                   errors, undo_ops, undo_result, nExec, g_move, g_clean,
                   g_undo, scan, rn>>

\* every path of the model at which a file can be
AllPaths == DOMAIN fs \cup {InitialFiles[i] : i \in 1..Len(InitialFiles)}

Next ==
    \/ \E req \in Requests : ExecStart(req)
    \/ ExecItem
    \/ ExecMoveMain
    \/ ExecMoveAssoc
    \/ ExecClean
    \/ ExecRecord
    \/ ExecReturn
    \/ UndoStart
    \/ UndoStep
    \/ UndoFinish
    \/ UndoReturn
    \/ \E p \in AllPaths : EnvDelete(p)
    \/ \E p \in AllPaths : EnvCreate(p)

Spec == Init /\ [][Next]_vars


---------------------------------------------------------------------------
(* Properties of the move engine and the undo ledger.                      *)

\* the operations of a batch, as a set
OpsOf(batch) == {batch.operations[i] : i \in 1..Len(batch.operations)}

\* an undo call on a non-empty history has popped the batch and not yet
\* returned
UndoDone == pc = "undo_return" /\ g_undo # <<>> /\ g_undo[1].hist # <<>>

\* at the time undo was called no record of the head batch had a missing
\* destination or an occupied source slot
NoUndoConflict ==
    \A op \in OpsOf(g_undo[1].hist[1]) :
        Exists(g_undo[1].pre, op.dest) /\ ~Exists(g_undo[1].pre, op.src)

\* C1 (as claimed): when no record of the batch has a missing destination or
\* an occupied source slot at undo time, after undo_last_batch every original
\* source path of the batch again holds the file that was moved from it.
C1_UndoRoundTrip ==
    (UndoDone /\ NoUndoConflict) =>
        \A op \in OpsOf(g_undo[1].hist[1]) :
            Exists(fs, op.src) /\ fs[op.src] = op.g_id

\* C2: an undo_last_batch call on a non-empty history removes exactly the
\* head batch, whatever the number of records restored: the history after the
\* call is the history before it without its first batch, in the same order.
C2_UndoPopsHead ==
    UndoDone =>
        /\ Len(history) = Len(g_undo[1].hist) - 1
        /\ \A i \in 1..Len(history) : history[i] = g_undo[1].hist[i + 1]

\* C2 witness: an undo of the head of a two-batch history that restored one
\* record and failed on another has popped the batch
C2_Witness ==
    /\ UndoDone
    /\ Len(g_undo[1].hist) = 2
    /\ undo_result[1].restored_count > 0
    /\ undo_result[1].failure_count > 0

\* C3: get_unique_path never returns an existing path: it returns the path
\* itself when it is free and otherwise the path with " (n)" appended to the
\* stem for the smallest n >= 1 whose path is free.
C3_UniquePath ==
    \A p \in AllPaths :
        LET r == get_unique_path(fs, p)
        IN /\ ~Exists(fs, r)
           /\ ~Exists(fs, p) => r = p
           /\ Exists(fs, p) =>
                 \E n \in 1..(Cardinality(DOMAIN fs) + 1) :
                     /\ r = Path(p.dir, Stem(p.name) \o <<" ", "(">>
                                  \o IntToStr(n) \o <<")">> \o Suffix(p.name))
                     /\ \A m \in 1..(n - 1) : Exists(fs, CounterPath(p, m))

\* C3 witness: a path and its " (1)" variant are both taken, and the result
\* carries " (2)"
C3_Witness ==
    \E p \in AllPaths :
        /\ Exists(fs, p)
        /\ Exists(fs, CounterPath(p, 1))
        /\ get_unique_path(fs, p) = CounterPath(p, 2)

\* C4: a move_file call never overwrites or removes a file at the
\* destination: every file other than the source is where it was with the
\* content it had, the moved file is at the returned path, which is the
\* destination or a suffixed variant of it, and the source path is gone.
C4_MoveNeverOverwrites ==
    g_move # <<>> =>
        LET m == g_move[1]
        IN /\ \A p \in DOMAIN m.before :
                  p # m.source =>
                      (p \in DOMAIN m.after /\ m.after[p] = m.before[p])
           /\ m.final \in DOMAIN m.after
           /\ m.after[m.final] = m.before[m.source]
           /\ m.source \notin DOMAIN m.after
           /\ m.final # m.destination => m.destination \in DOMAIN m.before

\* C4 witness: a move onto an occupied destination landed on a suffixed path
C4_Witness ==
    /\ g_move # <<>>
    /\ g_move[1].destination \in DOMAIN g_move[1].before
    /\ g_move[1].final # g_move[1].destination
    /\ g_move[1].destination # g_move[1].source

\* the name a file is associated by: it starts with the stem of the main
\* file, and the next character is a separator
HasStemAndSeparator(main_name, name) ==
    LET k == Len(Stem(main_name))
    IN /\ Len(name) > k
       /\ \A i \in 1..k : name[i] = Stem(main_name)[i]
       /\ name[k + 1] \in {".", "-", "_", " "}

ItemDone == cur # <<>> /\ cur[1].final_target # <<>> /\ cur[1].todo = {}

\* finalDest's stem followed by what follows the main file's original stem in
\* the associated file's name, in finalDest's directory
ExpectedAssoc(a) ==
    LET final == cur[1].final_target[1]
        k == Len(Stem(cur[1].original.name))
    IN Path(final.dir,
            Stem(final.name) \o [i \in 1..(Len(a.name) - k) |-> a.name[k + i]])

\* C6 (as claimed): once the item is done every associated file is in
\* finalDest's directory under finalDest's stem followed by its own suffix,
\* and its path in the source directory no longer exists.
C6_AssocRenamed ==
    ItemDone =>
        \A a \in cur[1].associated_files :
            /\ Exists(fs, ExpectedAssoc(a))
            /\ fs[ExpectedAssoc(a)] = cur[1].g_pre[a]
            /\ ~Exists(fs, a)

\* C6 (amended): once the item is done every associated file is in
\* finalDest's directory under finalDest's stem followed by its own suffix
\* or, when that name was taken, under that name with " (n)" appended to its
\* stem for the smallest free n, and its source path no longer exists.
C6_AssocRenamedUnique ==
    ItemDone =>
        \A a \in cur[1].associated_files :
            LET t == ExpectedAssoc(a)
                id == cur[1].g_pre[a]
            IN /\ \E q \in DOMAIN fs :
                     /\ fs[q] = id
                     /\ \/ q = t
                        \/ /\ Exists(fs, t)
                           /\ \E n \in 1..Cardinality(DOMAIN fs) :
                                 /\ q = CounterPath(t, n)
                                 /\ \A m \in 1..(n - 1) :
                                        Exists(fs, CounterPath(t, m))
               /\ ~Exists(fs, a)

\* C6 witness: an associated file whose name was taken landed on the " (1)"
\* variant
C6_Witness ==
    /\ ItemDone
    /\ \E a \in cur[1].associated_files :
          /\ Exists(fs, CounterPath(ExpectedAssoc(a), 1))
          /\ fs[CounterPath(ExpectedAssoc(a), 1)] = cur[1].g_pre[a]

\* the directory on the upward chain of `path` just below d
ChildOnChain(path, d) == SubSeq(path, 1, Len(d) + 1)

\* C7: clean_empty_dirs removes only directories on the upward chain from
\* path that are empty when visited, removes every such directory up to the
\* first non-empty one or the root, and never removes the root.
C7_CleanEmptyDirs ==
    g_clean # <<>> =>
        LET c == g_clean[1]
            removed == c.before \ c.after
            \* d holds no file, and no directory that is still there
            EmptyWhenVisited(d) ==
                /\ \A p \in c.files : p.dir # d
                /\ \A e \in c.before :
                       (e # <<>> /\ Parent(e) = d) => e \in removed
            \* the ascent reaches d
            Visited(d) ==
                /\ d \in Ancestors(c.path)
                /\ d \in c.before
                /\ d # c.path => ChildOnChain(c.path, d) \in removed
        IN /\ c.after \subseteq c.before
           /\ \A d \in removed :
                  Visited(d) /\ EmptyWhenVisited(d) /\ d \notin c.root
           /\ \A d \in c.before :
                  (Visited(d) /\ EmptyWhenVisited(d) /\ d \notin c.root
                       /\ d # <<>>) => d \in removed
           /\ \A d \in c.root : d \in c.before => d \in c.after

\* C7 witness: the ascent removed a directory and stopped at the root, which
\* is left empty
C7_Witness ==
    /\ g_clean # <<>>
    /\ g_clean[1].root = {SRC}
    /\ SA \in g_clean[1].before \ g_clean[1].after
    /\ SRC \in g_clean[1].after
    /\ \A p \in g_clean[1].files : p.dir # SRC
    /\ \A e \in g_clean[1].after : e = <<>> \/ Parent(e) # SRC

\* an execute request is being served
Executing ==
    pc \in {"exec_item", "exec_main", "exec_assoc", "exec_record",
            "exec_return"}

\* the records of main files in `moved` that belong to item k
MainRecords(k) ==
    {i \in 1..Len(moved) : ~moved[i].associated /\ moved[i].g_item = k}

\* the entries of `errors` that belong to item k
ErrorEntries(k) == {i \in 1..Len(errors) : errors[i].g_item = k}

\* item k has been taken from request.files and is past its move or its
\* existence check
Decided(k) ==
    /\ k < request.next
    /\ ~(pc = "exec_main" /\ cur[1].g_item = k)

\* C17: an execute batch runs to completion: the loop ends only when every
\* item was taken, and every item taken has, once decided, either one record
\* of its main file in `moved` or one entry in `errors`, never both and never
\* neither, for its own original path; records and entries are in request
\* order.
C17_ExecuteCompletes ==
    Executing =>
        /\ pc \in {"exec_record", "exec_return"} =>
               request.next = Len(request.files) + 1
        /\ \A k \in 1..Len(request.files) :
               IF Decided(k)
               THEN /\ Cardinality(MainRecords(k)) + Cardinality(ErrorEntries(k)) = 1
                    /\ \A i \in MainRecords(k) :
                           moved[i].src = request.files[k].original
                    /\ \A i \in ErrorEntries(k) :
                           errors[i].file = request.files[k].original
               ELSE MainRecords(k) = {} /\ ErrorEntries(k) = {}
        /\ \A i, j \in 1..Len(moved) : i < j => moved[i].g_item <= moved[j].g_item
        /\ \A i, j \in 1..Len(errors) : i < j => errors[i].g_item < errors[j].g_item

\* C17 witness: the first item of a batch failed (its source is missing) and
\* the second item was moved all the same
C17_Witness ==
    /\ pc = "exec_record"
    /\ Len(request.files) = 2
    /\ ErrorEntries(1) # {}
    /\ MainRecords(2) # {}

---------------------------------------------------------------------------
(* The ledger of a process that starts on a history file left by earlier   *)
(* runs: _load_history reads it at construction.  The file was written by  *)
(* _save_history, so it holds at most HistoryLimit batches; the batches    *)
(* loaded are older than any batch recorded by this process.               *)

\* a record of a batch of an earlier run; nothing is at its destination
LoadedOp ==
    [src |-> InitialFiles[3], dest |-> Path(DST, <<"o", ".", "m">>),
     associated |-> FALSE, g_item |-> 1, g_id |-> 0, g_final |-> InitialFiles[3]]

\* self.history = json.loads(self.history_file.read_text()), n batches
LoadedHistory(n) ==
    [i \in 1..n |-> [batch_id |-> 1 - i, operations |-> <<LoadedOp>>]]

InitLedger ==
    /\ \E S \in {{1, 2, 6}} :
          /\ fs = InitFs(S)
          /\ dirs = {<<>>, SRC, DST} \cup DirsOf(InitFs(S))
    /\ source_root = {SRC}
    /\ \E n \in {HistoryLimit - 1, HistoryLimit} :
          /\ history = LoadedHistory(n)
          /\ ledger = LoadedHistory(n)
    /\ pc = "idle"
    /\ request = <<>>
    /\ cur = <<>>
    /\ moved = <<>>
    /\ errors = <<>>
    /\ undo_ops = <<>>
    /\ undo_result = <<>>
    /\ nExec = 0
    /\ nEnv = 0
    /\ g_move = <<>>
    /\ g_clean = <<>>
    /\ g_undo = <<>>
    /\ scan = ScanOff /\ rn = RnOff

SpecLedger == InitLedger /\ [][Next]_vars

\* the batch ids of a history, as a set
BatchIds(h) == {h[i].batch_id : i \in 1..Len(h)}

\* the step made by record_batch: a batch newer than every batch of the
\* history is put at its head, and the 50 most recent are kept
IsRecordStep ==
    /\ Len(history') >= 1
    /\ \A b \in BatchIds(history) : history'[1].batch_id > b
    /\ history'[1].operations = moved
    /\ moved # <<>>
    /\ Len(history') = IF Len(history) < 50 THEN Len(history) + 1 ELSE 50
    /\ \A i \in 2..Len(history') : history'[i] = history[i - 1]

\* the step made by undo_last_batch: the batch attempted and removed is the
\* most recent one of the history
IsUndoStep ==
    /\ history # <<>>
    /\ history' = Tail(history)
    /\ \A b \in BatchIds(history') : history[1].batch_id > b
    /\ g_undo # <<>>
    /\ g_undo[1].hist = history
    /\ \A i \in 1..Len(g_undo[1].attempted) :
           g_undo[1].attempted[i] \in OpsOf(history[1])

\* C18: the history never holds more than 50 batches and is ordered most
\* recent first; it changes only by record_batch, which puts the new batch at
\* the head and drops the oldest batch beyond 50, and by undo_last_batch,
\* which acts on the most recently recorded batch still in the history.
C18_HistoryBounded ==
    /\ [](/\ Len(history) <= 50
          /\ \A i, j \in 1..Len(history) :
                 i < j => history[i].batch_id > history[j].batch_id)
    /\ [][history' # history => (IsRecordStep \/ IsUndoStep)]_vars

\* C18 witness: a batch was recorded on a full history: it is at the head,
\* the history still holds 50 batches and the oldest one loaded is gone
C18_Witness ==
    /\ pc = "exec_return"
    /\ moved # <<>>
    /\ Len(history) = 50
    /\ history[1].operations = moved
    /\ history[50].batch_id = 1 - 49

---------------------------------------------------------------------------
(* Undo: records in conflict, and undo on an empty history                 *)

\* the undo loop is about to process a record whose destination no longer
\* exists or whose original source path is occupied
UndoConflict ==
    /\ pc = "undo_loop"
    /\ undo_ops # <<>>
    /\ (~Exists(fs, Head(undo_ops).dest) \/ Exists(fs, Head(undo_ops).src))

\* C19: during undo, a record whose destination no longer exists or whose
\* original source path is occupied is reported as one per-file failure and
\* skipped: the step leaves every file and directory where it is (nothing at
\* the destination or source path is moved, overwritten or deleted), counts
\* no restore, and the loop goes on to the remaining records, so that when the
\* call is done every record of the batch has been processed, in reverse
\* order, each counted as restored or failed.
C19_UndoSkipsConflicts ==
    /\ [][UndoConflict =>
            /\ fs' = fs
            /\ dirs' = dirs
            /\ undo_result'[1].failure_count =
                   undo_result[1].failure_count + 1
            /\ undo_result'[1].restored_count = undo_result[1].restored_count
            /\ undo_ops' = Tail(undo_ops)
            /\ pc' = "undo_loop"]_vars
    /\ [](UndoDone =>
            /\ g_undo[1].attempted = Reversed(g_undo[1].hist[1].operations)
            /\ undo_result[1].restored_count + undo_result[1].failure_count
                  = Len(g_undo[1].hist[1].operations))

\* C19 witness: an undo is done in which a record whose destination file was
\* there but whose source path was occupied failed, the occupying file and
\* the file at the destination are still in place, and a record processed
\* after it was restored
C19_Witness ==
    /\ UndoDone
    /\ undo_result[1].failure_count > 0
    /\ \E i, j \in 1..Len(g_undo[1].attempted) :
          LET bad == g_undo[1].attempted[i]
              good == g_undo[1].attempted[j]
              pre == g_undo[1].pre
          IN /\ i < j
             /\ Exists(pre, bad.dest) /\ Exists(pre, bad.src)
             /\ Exists(fs, bad.dest) /\ fs[bad.dest] = pre[bad.dest]
             /\ Exists(fs, bad.src) /\ fs[bad.src] = pre[bad.src]
             /\ ~Exists(pre, good.src)
             /\ Exists(fs, good.src) /\ fs[good.src] = pre[good.dest]

\* C20: undo_last_batch on an empty history returns a result with success =
\* false and changes nothing: the history, in memory and on disk, stays empty
\* and no file or directory is touched.
C20_UndoEmptyHistory ==
    (pc = "undo_return" /\ g_undo # <<>> /\ g_undo[1].hist = <<>>) =>
        /\ undo_result[1].success = FALSE
        /\ history = <<>>
        /\ ledger = <<>>
        /\ fs = g_undo[1].pre
        /\ dirs = g_undo[1].pre_dirs

\* C20 witness: undo was called on an empty history, with files in place,
\* and is about to return
C20_Witness ==
    /\ pc = "undo_return"
    /\ g_undo # <<>>
    /\ g_undo[1].hist = <<>>
    /\ DOMAIN fs # {}
    /\ undo_result # <<>>

---------------------------------------------------------------------------
(* src/src/api.py: scan_files.  The inputs of a run are the search targets *)
(* collected from the scan paths, each with what parse_filename makes of   *)
(* its name.                                                               *)

\* search targets of one scan run
MaxTargets == 3

\* asyncio.Semaphore(5)
ConcurrencyLimit == 5

TVD == <<"tv", "Show">>
DL  == <<"in", "Downloads">>

\* titles parse_filename finds
TitleA == <<"a", "b", "c">>
TitleX == <<"x", "y", "z">>

\* the files a scan may find: path and the metadata parse_filename returns
\* for it.  parse_filename sets no tmdb_id (src/src/renamer.py:11-137).
ScanFiles ==
    << [path |-> Path(TVD, <<"b", ".", "m">>),
        parsed |-> [type |-> "tv", title |-> TitleA, season |-> <<1>>,
                    tmdb_id |-> <<>>]],
       [path |-> Path(TVD, <<"a", ".", "m">>),
        parsed |-> [type |-> "tv", title |-> TitleA, season |-> <<1>>,
                    tmdb_id |-> <<>>]],
       [path |-> Path(TVD, <<"c", ".", "m">>),
        parsed |-> [type |-> "movie", title |-> TitleX, season |-> <<>>,
                    tmdb_id |-> <<>>]],
       [path |-> Path(DL, <<"a", ".", "m">>),
        parsed |-> [type |-> "tv", title |-> TitleA, season |-> <<1>>,
                    tmdb_id |-> <<>>]] >>

FileIds == 1..Len(ScanFiles)

\* search_targets: lists of distinct files
TargetLists ==
    {t \in UNION {[1..n -> FileIds] : n \in 0..MaxTargets} :
        \A i, j \in DOMAIN t : i # j => t[i] # t[j]}

\* renamer.parse_filename(file_path)
parse_filename(f) == ScanFiles[f].parsed

\* the code points of the characters of file names, in increasing order
CharOrder == <<" ", "(", ")", "-", ".", "a", "b", "c", "m">>

Ord(c) == CHOOSE k \in 1..Len(CharOrder) : CharOrder[k] = c

\* a < b for two names, as Python compares str
RECURSIVE NameLess(_, _)
NameLess(a, b) ==
    IF a = <<>> THEN b # <<>>
    ELSE IF b = <<>> THEN FALSE
    ELSE IF a[1] # b[1] THEN Ord(a[1]) < Ord(b[1])
    ELSE NameLess(Tail(a), Tail(b))

\* dir_files.sort(key=lambda p: p.name); the sort is stable
RECURSIVE SortByName(_)
SortByName(files) ==
    IF files = <<>> THEN <<>>
    ELSE LET rest == SortByName(Tail(files))
             x == files[1]
             k == Cardinality({j \in 1..Len(rest) :
                      NameLess(ScanFiles[rest[j]].path.name,
                               ScanFiles[x].path.name)})
         IN SubSeq(rest, 1, k) \o <<x>> \o SubSeq(rest, k + 1, Len(rest))

\* files_by_dir: the directories in order of first appearance, each with its
\* files in the order of search_targets
RECURSIVE GroupByDir(_, _)
GroupByDir(targets, acc) ==
    IF targets = <<>> THEN acc
    ELSE LET p == targets[1]
             d == ScanFiles[p].path.dir
             known == \E k \in 1..Len(acc) : acc[k].dir = d
             acc1 == IF known
                     THEN [k \in 1..Len(acc) |->
                              IF acc[k].dir = d
                              THEN [acc[k] EXCEPT !.files = @ \o <<p>>]
                              ELSE acc[k]]
                     ELSE acc \o <<[dir |-> d, files |-> <<p>>]>>
         IN GroupByDir(Tail(targets), acc1)

\* the names of the mixed directories
MixedDirNames == {"downloads", "desktop", "documents", "unsorted", "incoming"}

\* str.lower() on the directory names of the model
LowerName(n) ==
    CASE n = "Downloads" -> "downloads"
      [] n = "Show" -> "show"
      [] OTHER -> n

\* parent_name.lower() in [...]
is_mixed_dir(parent) == LowerName(parent[Len(parent)]) \in MixedDirNames

\* str.strip() of blanks
RECURSIVE Strip(_)
Strip(t) ==
    IF t = <<>> THEN t
    ELSE IF t[1] = " " THEN Strip(Tail(t))
    ELSE IF t[Len(t)] = " " THEN Strip(SubSeq(t, 1, Len(t) - 1))
    ELSE t

UpperChars == <<"A", "B", "C", "D", "E", "F", "G", "H", "I", "J", "K", "L", "M",
                "N", "O", "P", "Q", "R", "S", "T", "U", "V", "W", "X", "Y", "Z">>

LowerChars == <<"a", "b", "c", "d", "e", "f", "g", "h", "i", "j", "k", "l", "m",
                "n", "o", "p", "q", "r", "s", "t", "u", "v", "w", "x", "y", "z">>

\* str.lower() on one character
LowerChar(c) ==
    IF \E k \in 1..26 : UpperChars[k] = c
    THEN LowerChars[CHOOSE k \in 1..26 : UpperChars[k] = c]
    ELSE c

\* .lower().replace('.', ' ').replace('-', ' ')
Normalize(t) ==
    [k \in 1..Len(t) |-> IF t[k] \in {".", "-"} THEN " " ELSE LowerChar(t[k])]

\* a in b, for str
IsSubstring(a, b) ==
    \E k \in 0..(Len(b) - Len(a)) : SubSeq(b, k + 1, k + Len(a)) = a

\* should_use: the parsed title does not contradict the cached one
should_use(title, cached) ==
    LET parsed_title == Strip(title)
        cached_title == Strip(cached)
        p_norm == Normalize(parsed_title)
        c_norm == Normalize(cached_title)
    IN ~ (/\ parsed_title # <<>>
          /\ Len(parsed_title) > 2
          /\ ~IsSubstring(p_norm, c_norm)
          /\ ~IsSubstring(c_norm, p_norm))

\* await tmdb_client.get_season_details(tmdb_id, season_num): TMDBClient
\* (src/src/api_clients/tmdb.py:6-56) has no attribute get_season_details,
\* so evaluating the call raises AttributeError before any request is made
get_season_details(tmdb_id, season_num) ==
    [raised |-> TRUE, requests |-> 0, data |-> <<>>]

\* await renamer.get_candidates(metadata, cached_season_data=...,
\* cached_all_candidates=...): Renamer.get_candidates
\* (src/src/renamer.py:139) takes parsed_info, cached_season_data and
\* cached_show_metadata, so the call raises TypeError (unexpected keyword
\* argument) before the coroutine is created
get_candidates(metadata, cached_season_data, cached_all_candidates) ==
    [raised |-> TRUE, candidates |-> <<>>]

\* step 2 of process_file: the metadata after the folder cache was consulted
seed_from_folder_cache(parsed, parent, folder_cache) ==
    IF /\ ~is_mixed_dir(parent)
       /\ parent \in DOMAIN folder_cache
       /\ folder_cache[parent].type = "tv"
       /\ should_use(parsed.title, folder_cache[parent].title)
    THEN [parsed EXCEPT !.title = folder_cache[parent].title,
                        !.tmdb_id = folder_cache[parent].tmdb_id]
    ELSE parsed

\* metadata.get('type') == 'tv' and tmdb_id and season_num is not None
wants_season(metadata) ==
    /\ metadata.type = "tv"
    /\ metadata.tmdb_id # <<>>
    /\ metadata.season # <<>>

\* step 3 of process_file: the season cache after it, the roster handed to
\* get_candidates (<<>> for None) and the keys requested from the provider
season_step(metadata, season_cache) ==
    LET cache_key == <<metadata.tmdb_id, metadata.season>>
    IN IF ~wants_season(metadata)
       THEN [season_cache |-> season_cache, data |-> <<>>, fetched |-> <<>>]
       ELSE IF cache_key \in DOMAIN season_cache
       THEN [season_cache |-> season_cache,
             data |-> <<season_cache[cache_key]>>, fetched |-> <<>>]
       ELSE LET r == get_season_details(metadata.tmdb_id, metadata.season)
            IN IF ~r.raised /\ r.data # <<>>
               THEN [season_cache |->
                        [k \in DOMAIN season_cache \cup {cache_key} |->
                            IF k = cache_key THEN r.data[1]
                            ELSE season_cache[k]],
                     data |-> r.data,
                     fetched |-> [k \in 1..r.requests |-> cache_key]]
               ELSE [season_cache |-> season_cache, data |-> <<>>,
                     fetched |-> [k \in 1..r.requests |-> cache_key]]

\* the folder cache after the candidates came back
update_folder_cache(candidates_raw, parent, folder_cache) ==
    IF /\ candidates_raw # <<>>
       /\ candidates_raw[1].type = "tv"
       /\ ~is_mixed_dir(parent)
       /\ parent \notin DOMAIN folder_cache
    THEN [d \in DOMAIN folder_cache \cup {parent} |->
             IF d = parent
             THEN [type |-> "tv", title |-> candidates_raw[1].title,
                   tmdb_id |-> <<candidates_raw[1].id>>]
             ELSE folder_cache[d]]
    ELSE folder_cache

\* step 5 of process_file: the ScannedFile
build_response(file_path, metadata, candidates_raw) ==
    [original_path |-> file_path,
     file_type |-> IF candidates_raw # <<>> THEN candidates_raw[1].type
                   ELSE metadata.type,
     candidates |-> candidates_raw]

\* a variant of the handler that lets the exception go on
except_reraise(e) == [raised |-> TRUE, value |-> <<>>]

\* except Exception as e: logger.error(...); return None
except_return_none(e) == [raised |-> FALSE, value |-> <<>>]

\* the body of process_file under the semaphore: how it ends (the value
\* returned, <<>> for None, or an exception that leaves it), whether an
\* exception was raised inside it, the two caches after it, and the provider
\* requests it made for season rosters
process_file(f, folder_cache, season_cache) ==
    LET parent == ScanFiles[f].path.dir
        metadata == seed_from_folder_cache(parse_filename(f), parent,
                                           folder_cache)
        season == season_step(metadata, season_cache)
        call == get_candidates(metadata, season.data, <<>>)
    IN IF call.raised
       THEN [result |-> except_return_none("TypeError"),
             failed |-> TRUE,
             folder_cache |-> folder_cache,
             season_cache |-> season.season_cache,
             fetched |-> season.fetched]
       ELSE [result |-> [raised |-> FALSE,
                         value |-> <<build_response(ScanFiles[f].path,
                                                    metadata,
                                                    call.candidates)>>],
             failed |-> FALSE,
             folder_cache |-> update_folder_cache(call.candidates, parent,
                                                  folder_cache),
             season_cache |-> season.season_cache,
             fetched |-> season.fetched]

---------------------------------------------------------------------------
(* One scan_files run as a state machine.  process_file is a coroutine:    *)
(* task[f] is "none" before it is created, "waiting" at `async with        *)
(* semaphore`, "running" inside it and "done" once it has returned.        *)

move_vars == <<fs, dirs, source_root, history, ledger, pc, request, cur,
               moved, errors, undo_ops, undo_result, nExec, nEnv, g_move,
               g_clean, g_undo>>

EmptyMap == [x \in {} |-> x]

\* a variant that leaves Phase 1 at the first file
phase1_break_always(folder_cache, dir_path) == TRUE

\* the loop check of Phase 1: a TV context is cached for the directory
phase1_break(folder_cache, dir_path) ==
    /\ dir_path \in DOMAIN folder_cache
    /\ folder_cache[dir_path].type = "tv"

\* scan_files up to the loop over files_by_dir.  provider_up tells whether
\* the metadata provider answers requests during the run; nothing in the run
\* depends on it, as no call of the run reaches the provider.
ScanStart(targets, provider_up) ==
    /\ scan.pc = "off"
    /\ scan' = [pc |-> "group",
                provider_up |-> provider_up,
                files_by_dir |-> GroupByDir(targets, <<>>),
                g |-> 1,
                dir_files |-> <<>>,
                i |-> 1,
                processed_indices |-> {},
                remaining_files |-> <<>>,
                folder_cache |-> EmptyMap,
                season_cache |-> EmptyMap,
                semaphore |-> ConcurrencyLimit,
                task |-> [f \in FileIds |-> "none"],
                phase |-> [f \in FileIds |-> 0],
                ret |-> [f \in FileIds |-> [raised |-> FALSE, value |-> <<>>]],
                failed |-> {},
                file_results |-> <<>>,
                fetches |-> <<>>,
                files |-> <<>>]
    /\ UNCHANGED <<move_vars, rn>>

\* the head of `for dir_path, dir_files in files_by_dir.items()`: the sort
\* and the fresh processed_indices
GroupStart ==
    /\ scan.pc = "group"
    /\ IF scan.g > Len(scan.files_by_dir)
       THEN scan' = [scan EXCEPT !.pc = "finish"]
       ELSE scan' = [scan EXCEPT
                        !.dir_files = SortByName(scan.files_by_dir[scan.g].files),
                        !.i = 1,
                        !.processed_indices = {},
                        !.pc = "phase1"]
    /\ UNCHANGED <<move_vars, rn>>

\* the head of the Phase 1 loop: exhausted, break, or call process_file
P1Head ==
    /\ scan.pc = "phase1"
    /\ IF scan.i > Len(scan.dir_files)
       THEN scan' = [scan EXCEPT !.pc = "phase2"]
       ELSE IF phase1_break(scan.folder_cache, scan.files_by_dir[scan.g].dir)
       THEN scan' = [scan EXCEPT !.pc = "phase2"]
       ELSE scan' = [scan EXCEPT !.task[scan.dir_files[scan.i]] = "waiting",
                                 !.phase[scan.dir_files[scan.i]] = 1,
                                 !.pc = "await1"]
    /\ UNCHANGED <<move_vars, rn>>

\* a variant of the exit that hands back two permits
semaphore_release_twice(value) == value + 2

\* async with semaphore: exit (Semaphore.release)
semaphore_release(value) == value + 1

\* async with semaphore: enter
PfAcquire(f) ==
    /\ scan.pc \in {"await1", "gather"}
    /\ scan.task[f] = "waiting"
    /\ scan.semaphore > 0
    /\ scan' = [scan EXCEPT !.semaphore = @ - 1, !.task[f] = "running"]
    /\ UNCHANGED <<move_vars, rn>>

\* the body of process_file and the exit from the semaphore.  Neither await
\* in it suspends: both calls raise when the call is evaluated.
PfBody(f) ==
    /\ scan.pc \in {"await1", "gather"}
    /\ scan.task[f] = "running"
    /\ LET r == process_file(f, scan.folder_cache, scan.season_cache)
       IN scan' = [scan EXCEPT !.task[f] = "done",
                               !.ret[f] = r.result,
                               !.failed = IF r.failed THEN @ \cup {f} ELSE @,
                               !.folder_cache = r.folder_cache,
                               !.season_cache = r.season_cache,
                               !.fetches = @ \o r.fetched,
                               !.semaphore = semaphore_release(@)]
    /\ UNCHANGED <<move_vars, rn>>

\* res = await process_file(file_p) returns: append, add the index, next i.
\* The await is in no try block: an exception leaving process_file leaves
\* scan_files too.
P1Resume ==
    /\ scan.pc = "await1"
    /\ scan.task[scan.dir_files[scan.i]] = "done"
    /\ IF scan.ret[scan.dir_files[scan.i]].raised
       THEN scan' = [scan EXCEPT !.pc = "aborted"]
       ELSE scan' = [scan EXCEPT
                   !.file_results =
                       Append(@, scan.ret[scan.dir_files[scan.i]].value),
                   !.processed_indices = @ \cup {scan.i},
                   !.i = @ + 1,
                   !.pc = "phase1"]
    /\ UNCHANGED <<move_vars, rn>>

\* a variant that takes every file of the group into Phase 2
remaining_indices_all(n, processed_indices) == 1..n

\* [f for i, f in enumerate(dir_files) if i not in processed_indices]: the
\* positions of the files left for Phase 2
remaining_indices(n, processed_indices) ==
    {k \in 1..n : k \notin processed_indices}

\* Phase 2: the remaining files are gathered; when there are none, or once
\* every task of the gather has returned, the loop goes to the next directory
Phase2 ==
    /\ scan.pc \in {"phase2", "gather"}
    /\ IF scan.pc = "phase2"
       THEN LET idx == remaining_indices(Len(scan.dir_files),
                                         scan.processed_indices)
                remaining_files ==
                    [k \in 1..Cardinality(idx) |->
                        scan.dir_files[CHOOSE m \in idx :
                            Cardinality({n \in idx : n < m}) = k - 1]]
                rem == {remaining_files[k] : k \in 1..Len(remaining_files)}
            IN IF remaining_files = <<>>
               THEN scan' = [scan EXCEPT !.g = @ + 1, !.pc = "group"]
               ELSE scan' = [scan EXCEPT
                       !.remaining_files = remaining_files,
                       !.task = [f \in FileIds |->
                                    IF f \in rem THEN "waiting" ELSE @[f]],
                       !.phase = [f \in FileIds |->
                                    IF f \in rem THEN 2 ELSE @[f]],
                       !.pc = "gather"]
       ELSE /\ \A k \in 1..Len(scan.remaining_files) :
                   scan.task[scan.remaining_files[k]] = "done"
            /\ scan' = [scan EXCEPT
                   !.file_results = @ \o
                       [k \in 1..Len(scan.remaining_files) |->
                           \* return_exceptions=True: an exception is a
                           \* result, replaced by None
                           IF scan.ret[scan.remaining_files[k]].raised
                           THEN <<>>
                           ELSE scan.ret[scan.remaining_files[k]].value],
                   !.remaining_files = <<>>,
                   !.g = @ + 1,
                   !.pc = "group"]
    /\ UNCHANGED <<move_vars, rn>>

\* files = [f for f in file_results if f] and the response
ScanFinish ==
    /\ scan.pc = "finish"
    /\ scan' = [scan EXCEPT
                   !.files = SelectSeq(scan.file_results, LAMBDA r : r # <<>>),
                   !.pc = "done"]
    /\ UNCHANGED <<move_vars, rn>>

InitScan ==
    /\ fs = InitFs({})
    /\ dirs = {<<>>}
    /\ source_root = {}
    /\ history = <<>>
    /\ ledger = <<>>
    /\ pc = "idle"
    /\ request = <<>>
    /\ cur = <<>>
    /\ moved = <<>>
    /\ errors = <<>>
    /\ undo_ops = <<>>
    /\ undo_result = <<>>
    /\ nExec = 0
    /\ nEnv = 0
    /\ g_move = <<>>
    /\ g_clean = <<>>
    /\ g_undo = <<>>
    /\ scan = ScanOff /\ rn = RnOff

NextScan ==
    \/ \E targets \in TargetLists, up \in BOOLEAN : ScanStart(targets, up)
    \/ GroupStart
    \/ P1Head
    \/ \E f \in FileIds : PfAcquire(f)
    \/ \E f \in FileIds : PfBody(f)
    \/ P1Resume
    \/ Phase2
    \/ ScanFinish

SpecScan == InitScan /\ [][NextScan]_vars

---------------------------------------------------------------------------
(* Properties of the scan.                                                 *)

\* the files whose processing has started and not finished
InFlight == {f \in FileIds : scan.task[f] \in {"waiting", "running"}}

ScanStartsNoPhase2Task ==
    scan.pc # "off" =>
        /\ scan.folder_cache = EmptyMap
        /\ scan.pc # "gather"
        /\ \A f \in FileIds : scan.phase[f] # 2

\* no file carries a tmdb_id when the season cache is consulted, so no
\* season roster is requested and none is cached
ScanRequestsNoRoster ==
    scan.pc # "off" =>
        /\ scan.fetches = <<>>
        /\ scan.season_cache = EmptyMap

\* the files inside `async with semaphore`
Holding == {f \in FileIds : scan.task[f] = "running"}

ScanTargets ==
    UNION {{scan.files_by_dir[k].files[j] :
               j \in 1..Len(scan.files_by_dir[k].files)} :
           k \in 1..Len(scan.files_by_dir)}

\* C15: an exception raised while one file is processed drops that file
\* only: the scan never aborts, and when it returns every search target of
\* every directory group has been processed, there is one result per target,
\* and the files returned are exactly the targets whose processing raised
\* nothing.
C15_ErrorIsolation ==
    /\ scan.pc # "aborted"
    /\ scan.pc = "done" =>
          /\ \A f \in ScanTargets : scan.task[f] = "done"
          /\ Len(scan.file_results) = Cardinality(ScanTargets)
          /\ {scan.files[k][1].original_path : k \in 1..Len(scan.files)} =
                 {ScanFiles[f].path : f \in ScanTargets \ scan.failed}

\* C15 witness: a scan of three files in two directory groups has returned
\* although the processing of each of them raised
C15_Witness ==
    /\ scan.pc = "done"
    /\ Len(scan.files_by_dir) = 2
    /\ Cardinality(ScanTargets) = 3
    /\ scan.failed = ScanTargets
    /\ \A f \in ScanTargets : scan.task[f] = "done"

\* C16 (as claimed): when the metadata provider fails during a scan, every
\* file of the scan is still returned in the results, with no candidates.
C16_ProviderFailureKeepsFile ==
    (scan.pc = "done" /\ ~scan.provider_up) =>
        \A f \in ScanTargets :
            \E k \in 1..Len(scan.files) :
                /\ scan.files[k][1].original_path = ScanFiles[f].path
                /\ scan.files[k][1].candidates = <<>>

---------------------------------------------------------------------------
(* src/src/renamer.py: the patterns of parse_filename.  A match object is  *)
(* <<>> (None) or a one-element sequence holding the groups; a group that  *)
(* did not take part in the match is <<>>.  The characters of the model    *)
(* are ASCII letters and digits, space and punctuation: the only           *)
(* whitespace is the space and the only digits are 0-9.                    *)

Min(S) == CHOOSE x \in S : \A y \in S : x <= y

Digits == {"0", "1", "2", "3", "4", "5", "6", "7", "8", "9"}

\* \s
WS == {" "}

DigitVal(c) == CHOOSE d \in 0..9 : DigitChar(d) = c

\* int(s) for a string of decimal digits
RECURSIVE StrToInt(_)
StrToInt(s) ==
    IF s = <<>> THEN 0
    ELSE 10 * StrToInt(SubSeq(s, 1, Len(s) - 1)) + DigitVal(s[Len(s)])

\* str.lower()
Lower(s) == [k \in 1..Len(s) |-> LowerChar(s[k])]

\* str.replace('.', ' ')
DotsToSpaces(s) == [k \in 1..Len(s) |-> IF s[k] = "." THEN " " ELSE s[k]]

\* str.strip(chars)
RECURSIVE StripChars(_, _)
StripChars(t, chars) ==
    IF t = <<>> THEN t
    ELSE IF t[1] \in chars THEN StripChars(Tail(t), chars)
    ELSE IF t[Len(t)] \in chars
         THEN StripChars(SubSeq(t, 1, Len(t) - 1), chars)
    ELSE t

\* the length of the longest run of characters of class C in s from index i
RunLen(s, i, C) ==
    IF i > Len(s) THEN 0
    ELSE Min({j \in i..(Len(s) + 1) : j = Len(s) + 1 \/ s[j] \notin C}) - i

\* \d{1,2} at index i followed by a character of class C: the number of
\* digits matched, 0 when there is no match
DigitsThen(s, i, C) ==
    LET n == RunLen(s, i, Digits)
    IN IF n \in {1, 2} /\ i + n <= Len(s) /\ s[i + n] \in C THEN n ELSE 0

\* \d{1,2} at index i, greedy, with no constraint on what follows
DigitsUpTo2(s, i) ==
    LET n == RunLen(s, i, Digits) IN IF n >= 2 THEN 2 ELSE n

\* (?:[ .-]*(.+?))?$ from index i: group 4
TailGroup(s, i) ==
    IF i > Len(s) THEN <<>>
    ELSE LET n == RunLen(s, i, {" ", ".", "-"})
         IN IF i + n <= Len(s) THEN SubSeq(s, i + n, Len(s))
            ELSE <<s[Len(s)]>>

\* (\d{1,2})[mark](\d{1,2})(?:[ .-]*(.+?))?$ from index i, after group 1
\* ended at index k
NumMarkNum(s, k, i, mark) ==
    LET n == DigitsThen(s, i, mark)
        q == i + n + 1
        m == DigitsUpTo2(s, q)
    IN IF n = 0 \/ m = 0 THEN <<>>
       ELSE <<[g1 |-> SubSeq(s, 1, k),
               g2 |-> SubSeq(s, i, i + n - 1),
               g3 |-> SubSeq(s, q, q + m - 1),
               g4 |-> TailGroup(s, q + m)]>>

\* a variant that knows the capital letters S and E only
tv_pattern_at_upper(s, k) ==
    IF k + 2 > Len(s) THEN <<>>
    ELSE IF s[k + 1] \notin {" ", "."} \/ s[k + 2] # "S" THEN <<>>
    ELSE NumMarkNum(s, k, k + 3, {"E"})

\* (.+?)[ .][sS](\d{1,2})[eE](\d{1,2})(?:[ .-]*(.+?))?$ with group 1 ending
\* at index k
tv_pattern_at(s, k) ==
    IF k + 2 > Len(s) THEN <<>>
    ELSE IF s[k + 1] \notin {" ", "."} \/ s[k + 2] \notin {"s", "S"} THEN <<>>
    ELSE NumMarkNum(s, k, k + 3, {"e", "E"})

\* re.search of the standard pattern: the shortest group 1 that matches
tv_pattern(s) ==
    LET K == {k \in 1..Len(s) : tv_pattern_at(s, k) # <<>>}
    IN IF K = {} THEN <<>> ELSE tv_pattern_at(s, Min(K))

\* (.+?)(?:[ .-]+|\s+-\s+)(\d{1,2})[xX](\d{1,2})(?:[ .-]*(.+?))?$ with
\* group 1 ending at index k
tv_pattern_b_at(s, k) ==
    LET n == RunLen(s, k + 1, {" ", ".", "-"})
    IN IF n = 0 THEN <<>>
       ELSE NumMarkNum(s, k, k + 1 + n, {"x", "X"})

tv_pattern_b(s) ==
    LET K == {k \in 1..Len(s) : tv_pattern_b_at(s, k) # <<>>}
    IN IF K = {} THEN <<>> ELSE tv_pattern_b_at(s, Min(K))

\* \s*(\d+) from index i: the digits, <<>> when there are none
DigitsAfterWs(s, i) ==
    LET j == i + RunLen(s, i, WS)
        n == RunLen(s, j, Digits)
    IN SubSeq(s, j, j + n - 1)

\* (?:season|s)\s*(\d+) at index i, ignoring case: group 1
season_match_at(s, i) ==
    LET word == IF i + 5 <= Len(s)
                   /\ Lower(SubSeq(s, i, i + 5)) = <<"s", "e", "a", "s", "o", "n">>
                THEN DigitsAfterWs(s, i + 6) ELSE <<>>
        letter == IF LowerChar(s[i]) = "s"
                  THEN DigitsAfterWs(s, i + 1) ELSE <<>>
    IN IF word # <<>> THEN word ELSE letter

\* re.search(r'(?:season|s)\s*(\d+)', parent_name, re.IGNORECASE): group 1
season_match(s) ==
    LET I == {i \in 1..Len(s) : season_match_at(s, i) # <<>>}
    IN IF I = {} THEN <<>> ELSE season_match_at(s, Min(I))

\* \(\d{4}\)
IsYearParen(t) ==
    /\ Len(t) = 6
    /\ t[1] = "(" /\ t[6] = ")"
    /\ \A i \in 2..5 : t[i] \in Digits

\* re.match(r'(.+?)(?:\s*\(\d{4}\))?$', show_folder): group 1, <<>> when
\* there is no match (the folder name is empty)
show_match(s) ==
    LET K == {k \in 1..Len(s) :
                LET r == SubSeq(s, k + 1, Len(s))
                IN r = <<>> \/ IsYearParen(SubSeq(r, RunLen(r, 1, WS) + 1, Len(r)))}
    IN IF K = {} THEN <<>> ELSE SubSeq(s, 1, Min(K))

\* (?:$|\s|\.|-) at index i
EpTerm(s, i) == i > Len(s) \/ s[i] \in {" ", ".", "-"}

\* re.search(r'(?:[eE]|^|\s)(\d{1,2})(?:$|\s|\.|-)', stem): group 1
ep_match(s) ==
    LET Q == {q \in 1..Len(s) :
                /\ (q = 1 \/ s[q - 1] \in {"e", "E", " "})
                /\ RunLen(s, q, Digits) \in {1, 2}
                /\ EpTerm(s, q + RunLen(s, q, Digits))}
    IN IF Q = {} THEN <<>>
       ELSE SubSeq(s, Min(Q), Min(Q) + RunLen(s, Min(Q), Digits) - 1)

\* (.+?)\s*-\s*(\d{2,4})(?:\s|[\.\[]|$) with group 1 = s[b..k]
anime_at(s, b, k) ==
    LET j == k + 1 + RunLen(s, k + 1, WS)
    IN IF j > Len(s) THEN <<>>
       ELSE IF s[j] # "-" THEN <<>>
       ELSE LET d == j + 1 + RunLen(s, j + 1, WS)
                n == RunLen(s, d, Digits)
            IN IF n \in 2..4
                  /\ (d + n > Len(s) \/ s[d + n] \in {" ", ".", "["})
               THEN <<[g1 |-> SubSeq(s, b, k), g2 |-> SubSeq(s, d, d + n - 1)]>>
               ELSE <<>>

\* the rest of the anime pattern after the optional tag, from index b: the
\* shortest group 1 that matches
anime_body(s, b) ==
    LET K == {k \in b..Len(s) : anime_at(s, b, k) # <<>>}
    IN IF K = {} THEN <<>> ELSE anime_at(s, b, Min(K))

\* where the body may start after a tag [..] closed at index c: after the
\* bracket and any part of the whitespace that follows it
AfterTag(s, c) == {c + 1 + w : w \in 0..RunLen(s, c + 1, WS)}

\* re.search(r'^(?:\[.*?\]\s*)?(.+?)\s*-\s*(\d{2,4})(?:\s|[\.\[]|$)', filename):
\* with the tag first (the nearest closing bracket first, the longest
\* whitespace first), then without it
anime_pattern(s) ==
    LET C == IF s # <<>> /\ s[1] = "["
             THEN {c \in 2..Len(s) :
                     /\ s[c] = "]"
                     /\ \E b \in AfterTag(s, c) : anime_body(s, b) # <<>>}
             ELSE {}
    IN IF C # {}
       THEN anime_body(s, Max({b \in AfterTag(s, Min(C)) :
                                  anime_body(s, b) # <<>>}))
       ELSE anime_body(s, 1)

\* (?:^|[ .\(])(\d{4})(?:$|[ .\)]) matched at index p: the index where the
\* match starts, the digits, and the index after the match
movie_at(s, p) ==
    LET d == IF p = 1 /\ s[1] \in Digits THEN 1
             ELSE IF s[p] \in {" ", ".", "("} THEN p + 1
             ELSE 0
    IN IF d = 0 \/ d + 3 > Len(s) THEN <<>>
       ELSE IF \E i \in d..(d + 3) : s[i] \notin Digits THEN <<>>
       ELSE IF d + 4 > Len(s)
            THEN <<[start |-> p, year |-> SubSeq(s, d, d + 3), end |-> d + 4]>>
       ELSE IF s[d + 4] \in {" ", ".", ")"}
            THEN <<[start |-> p, year |-> SubSeq(s, d, d + 3), end |-> d + 5]>>
       ELSE <<>>

\* list(re.finditer(..., filename)): the matches from index pos on, each
\* search starting where the previous match ended
RECURSIVE movie_matches(_, _)
movie_matches(s, pos) ==
    LET P == {p \in pos..Len(s) : movie_at(s, p) # <<>>}
    IN IF P = {} THEN <<>>
       ELSE <<movie_at(s, Min(P))[1]>>
            \o movie_matches(s, movie_at(s, Min(P))[1].end)

---------------------------------------------------------------------------
(* src/src/renamer.py: Renamer.parse_filename.  Each strategy returns <<>> *)
(* when it does not apply and <<info>> when it returns.                    *)

\* {'.epub', '.pdf', '.mobi', '.azw3'}
BookExts == {<<".", "e", "p", "u", "b">>, <<".", "p", "d", "f">>,
             <<".", "m", "o", "b", "i">>, <<".", "a", "z", "w", "3">>}

\* {'.m4b', '.mp3'}
AudioExts == {<<".", "m", "4", "b">>, <<".", "m", "p", "3">>}

\* path_obj.parent.name
ParentName(path) ==
    IF path.dir = <<>> THEN <<>> ELSE path.dir[Len(path.dir)]

\* path_obj.parent.parent.name
GrandparentName(path) ==
    IF Len(path.dir) < 2 THEN <<>> ELSE path.dir[Len(path.dir) - 1]

\* Audiobooks / Books
parse_extension(path) ==
    LET ext == Lower(Suffix(path.name))
        title == Strip(DotsToSpaces(Stem(path.name)))
    IN IF ext \in AudioExts
       THEN <<[type |-> "audiobook", is_audio |-> TRUE, title |-> title]>>
       ELSE IF ext \in BookExts
       THEN <<[type |-> "book", title |-> title]>>
       ELSE <<>>

\* the info of the standard pattern, from its groups
standard_info(m) ==
    LET info == [title |-> Strip(DotsToSpaces(m.g1)),
                 season |-> StrToInt(m.g2),
                 episode |-> StrToInt(m.g3),
                 type |-> "tv"]
    IN IF m.g4 # <<>>
       THEN info @@ [episode_title |-> Strip(DotsToSpaces(m.g4))]
       ELSE info

\* 1. Standard TV pattern (SxxExx)
parse_standard(path) ==
    LET m == tv_pattern(Stem(path.name))
    IN IF m = <<>> THEN <<>> ELSE <<standard_info(m[1])>>

\* the info of the "2x01" pattern, from its groups
alternate_info(m) ==
    LET info == [title |-> StripChars(DotsToSpaces(m.g1), {" ", "-"}),
                 season |-> StrToInt(m.g2),
                 episode |-> StrToInt(m.g3),
                 type |-> "tv"]
    IN IF m.g4 # <<>>
       THEN info @@ [episode_title |->
                        StripChars(DotsToSpaces(m.g4), {" ", "-"})]
       ELSE info

\* 1b. "2x01" pattern
parse_alternate(path) ==
    LET m == tv_pattern_b(Stem(path.name))
    IN IF m = <<>> THEN <<>> ELSE <<alternate_info(m[1])>>

\* 2. Smart parsing (folder context)
parse_folder(path) ==
    LET season == season_match(ParentName(path))
        show_folder == GrandparentName(path)
        show == show_match(show_folder)
        ep == ep_match(Stem(path.name))
    IN IF season = <<>> THEN <<>>
       ELSE <<[season |-> StrToInt(season),
               type |-> "tv",
               title |-> Strip(IF show # <<>> THEN show ELSE show_folder),
               episode |-> IF ep # <<>> THEN StrToInt(ep) ELSE 1]>>

\* 3. Anime / absolute numbering
parse_anime(path) ==
    LET m == anime_pattern(path.name)
    IN IF m = <<>> THEN <<>>
       ELSE LET potential_ep == StrToInt(m[1].g2)
            IN IF ~(1900 < potential_ep /\ potential_ep < 2030)
               THEN <<[title |-> Strip(DotsToSpaces(m[1].g1)),
                       season |-> 1,
                       episode |-> potential_ep,
                       type |-> "tv"]>>
               ELSE <<>>

\* for match in reversed(matches): the first match with a valid year, <<>>
\* when there is none
RECURSIVE last_valid_year(_)
last_valid_year(matches) ==
    IF matches = <<>> THEN <<>>
    ELSE LET match == matches[Len(matches)]
             potential_year == StrToInt(match.year)
         IN IF 1880 < potential_year /\ potential_year < 2030
            THEN <<match>>
            ELSE last_valid_year(SubSeq(matches, 1, Len(matches) - 1))

\* 4. Movie pattern (year)
parse_movie(path) ==
    LET filename == path.name
        m == last_valid_year(movie_matches(filename, 1))
    IN IF m = <<>> THEN <<>>
       ELSE <<[year |-> StrToInt(m[1].year),
               title |-> StripChars(
                            DotsToSpaces(SubSeq(filename, 1, m[1].start - 1)),
                            {" ", "(", ")", "-"}),
               type |-> "movie"]>>

\* a variant that cleans the title as the other strategies do
parse_fallback_cleaned(path) ==
    [title |-> Strip(DotsToSpaces(Stem(path.name))), type |-> "unknown"]

\* Fallback
parse_fallback(path) == [title |-> Stem(path.name), type |-> "unknown"]

\* a variant that looks at the folders before the filename
parse_cascade_folder_first(path) ==
    IF parse_extension(path) # <<>>
    THEN [info |-> parse_extension(path)[1], g_strategy |-> "extension"]
    ELSE IF parse_folder(path) # <<>>
    THEN [info |-> parse_folder(path)[1], g_strategy |-> "folder"]
    ELSE IF parse_standard(path) # <<>>
    THEN [info |-> parse_standard(path)[1], g_strategy |-> "standard"]
    ELSE IF parse_alternate(path) # <<>>
    THEN [info |-> parse_alternate(path)[1], g_strategy |-> "alternate"]
    ELSE IF parse_anime(path) # <<>>
    THEN [info |-> parse_anime(path)[1], g_strategy |-> "anime"]
    ELSE IF parse_movie(path) # <<>>
    THEN [info |-> parse_movie(path)[1], g_strategy |-> "movie"]
    ELSE [info |-> parse_fallback(path), g_strategy |-> "fallback"]

\* the strategies in the order the code tries them, with the name of the one
\* that returned
parse_cascade(path) ==
    IF parse_extension(path) # <<>>
    THEN [info |-> parse_extension(path)[1], g_strategy |-> "extension"]
    ELSE IF parse_standard(path) # <<>>
    THEN [info |-> parse_standard(path)[1], g_strategy |-> "standard"]
    ELSE IF parse_alternate(path) # <<>>
    THEN [info |-> parse_alternate(path)[1], g_strategy |-> "alternate"]
    ELSE IF parse_folder(path) # <<>>
    THEN [info |-> parse_folder(path)[1], g_strategy |-> "folder"]
    ELSE IF parse_anime(path) # <<>>
    THEN [info |-> parse_anime(path)[1], g_strategy |-> "anime"]
    ELSE IF parse_movie(path) # <<>>
    THEN [info |-> parse_movie(path)[1], g_strategy |-> "movie"]
    ELSE [info |-> parse_fallback(path), g_strategy |-> "fallback"]

\* Renamer.parse_filename
Renamer_parse_filename(path) == parse_cascade(path).info

---------------------------------------------------------------------------
(* The paths given to parse_filename: a stem of up to MaxWords words       *)
(* joined by separators, an extension, and the directories above the file. *)

\* words in the stem of a file name
MaxWords == 2

\* a title word, season/episode markers, years inside and outside the valid
\* range, and episode numbers
NameWords == {<<"A">>, <<"S", "0", "1", "E", "0", "2">>, <<"s", "0", "3", "e", "0", "4">>, <<"2", "x", "0", "3">>, <<"1", "8", "8", "1">>, <<"1", "9", "9", "9">>, <<"2", "0", "3", "0">>, <<"1", "2">>, <<"(", "2", "0", "1", "7", ")">>, <<"E", "5">>}

NameSeps == {<<".">>, <<" ">>, <<" ", "-", " ">>}

NameExts == {<<".", "m", "k", "v">>, <<".", "M", "P", "3">>, <<".", "e", "p", "u", "b">>, <<>>}

\* directory chains: a season folder under a show folder with a year, a
\* plain folder, a folder whose name ends in "s" and a number, a season
\* folder under a folder named by a year only, and no folder at all
NameDirs == {<<<<"S", "h", "o", "w", " ", "(", "2", "0", "2", "0", ")">>, <<"S", "e", "a", "s", "o", "n", " ", "2">>>>,
             <<<<"F", "i", "l", "m", "s">>>>,
             <<<<"S", "h", "o", "w">>, <<"E", "x", "t", "r", "a", "s", " ", "7">>>>,
             <<<<"(", "2", "0", "2", "0", ")">>, <<"S", "e", "a", "s", "o", "n", " ", "1">>>>,
             <<>>}

\* the stems of n words
RECURSIVE StemsOf(_)
StemsOf(n) ==
    IF n = 1 THEN NameWords
    ELSE {st \o sep \o w : st \in StemsOf(n - 1), sep \in NameSeps,
                            w \in NameWords}

ParseStems == UNION {StemsOf(n) : n \in 1..MaxWords}

ParsePaths == {Path(d, st \o e) : d \in NameDirs, st \in ParseStems,
                                  e \in NameExts}

\* the state of a run before parse_filename is called on `path`
RnStart(path) ==
    [pc |-> "start", path |-> path, parsed |-> <<>>, config |-> <<>>,
     metadata |-> <<>>, given |-> <<>>, out |-> <<>>]

InitRn(paths) ==
    /\ fs = InitFs({})
    /\ dirs = {<<>>}
    /\ source_root = {}
    /\ history = <<>>
    /\ ledger = <<>>
    /\ pc = "idle"
    /\ request = <<>>
    /\ cur = <<>>
    /\ moved = <<>>
    /\ errors = <<>>
    /\ undo_ops = <<>>
    /\ undo_result = <<>>
    /\ nExec = 0
    /\ nEnv = 0
    /\ g_move = <<>>
    /\ g_clean = <<>>
    /\ g_undo = <<>>
    /\ scan = ScanOff
    /\ \E path \in paths : rn = RnStart(path)

\* metadata = renamer.parse_filename(path)
RnParse ==
    /\ rn.pc = "start"
    /\ rn' = [rn EXCEPT !.pc = "parsed", !.parsed = <<parse_cascade(rn.path)>>]
    /\ UNCHANGED <<move_vars, scan>>

InitParse == InitRn(ParsePaths)

NextParse == RnParse

SpecParse == InitParse /\ [][NextParse]_vars

---------------------------------------------------------------------------
(* Properties of parse_filename.                                           *)

\* parse_filename has returned
Parsed == rn.pc = "parsed"

\* the identity parse_filename returned
Info == rn.parsed[1].info

\* a season/episode marker after a title ending at index k: a space or a
\* dot, S, one or two digits, E, a digit
MarkerAt(s, k) ==
    /\ k + 5 <= Len(s)
    /\ s[k + 1] \in {" ", "."}
    /\ s[k + 2] \in {"S", "s"}
    /\ s[k + 3] \in Digits
    /\ \/ s[k + 4] \in {"E", "e"} /\ s[k + 5] \in Digits
       \/ /\ k + 6 <= Len(s)
          /\ s[k + 4] \in Digits
          /\ s[k + 5] \in {"E", "e"}
          /\ s[k + 6] \in Digits

\* s has the form <title>.S<dd>E<dd>... with the title ending at index k
FormAt(s, k) ==
    /\ k + 7 <= Len(s)
    /\ s[k + 1] = "."
    /\ s[k + 2] \in {"S", "s"}
    /\ s[k + 3] \in Digits /\ s[k + 4] \in Digits
    /\ s[k + 5] \in {"E", "e"}
    /\ s[k + 6] \in Digits /\ s[k + 7] \in Digits

\* s has the form <title>.S<dd>E<dd>..., the title being non-empty and
\* holding no marker of its own
HasForm(s) ==
    \E k \in 1..Len(s) :
        FormAt(s, k) /\ \A j \in 1..(k - 1) : ~MarkerAt(s, j)

FormSeason(s) ==
    LET k == CHOOSE k \in 1..Len(s) : FormAt(s, k)
                                      /\ \A j \in 1..(k - 1) : ~MarkerAt(s, j)
    IN 10 * DigitVal(s[k + 3]) + DigitVal(s[k + 4])

FormEpisode(s) ==
    LET k == CHOOSE k \in 1..Len(s) : FormAt(s, k)
                                      /\ \A j \in 1..(k - 1) : ~MarkerAt(s, j)
    IN 10 * DigitVal(s[k + 6]) + DigitVal(s[k + 7])

IsTvWith(info, season, episode) ==
    /\ info.type = "tv"
    /\ "season" \in DOMAIN info /\ info.season = season
    /\ "episode" \in DOMAIN info /\ info.episode = episode

\* C21 (as claimed): for every filename of the form <title>.S<dd>E<dd>...
\* (non-empty title, S and E in either case), parse_filename returns type tv
\* with season and episode equal to the two captured integers.
C21_StandardPattern ==
    (Parsed /\ HasForm(rn.path.name)) =>
        IsTvWith(Info, FormSeason(rn.path.name), FormEpisode(rn.path.name))

\* C21 (amended): the same when the form is that of the stem, the filename
\* without its extension, and the extension is not one of the book and
\* audiobook extensions.
C21_StandardPatternStem ==
    (/\ Parsed
     /\ HasForm(Stem(rn.path.name))
     /\ Lower(Suffix(rn.path.name)) \notin BookExts \cup AudioExts) =>
        IsTvWith(Info, FormSeason(Stem(rn.path.name)),
                 FormEpisode(Stem(rn.path.name)))

\* C21 witness: a video file with a lower-case marker in a season folder of
\* another season has been parsed as episode 4 of season 3
C21_Witness ==
    /\ Parsed
    /\ HasForm(Stem(rn.path.name))
    /\ rn.path.name[Len(rn.path.name)] = "v"
    /\ season_match(ParentName(rn.path)) = <<"2">>
    /\ IsTvWith(Info, 3, 4)

\* a 4-digit token of s at index d: four digits between separators,
\* parentheses or the ends of the name
YearTokenAt(s, d) ==
    /\ d + 3 <= Len(s)
    /\ \A i \in d..(d + 3) : s[i] \in Digits
    /\ (d = 1 \/ s[d - 1] \in {" ", ".", "("})
    /\ (d + 4 > Len(s) \/ s[d + 4] \in {" ", ".", ")"})

\* the 4-digit tokens of s in the plausible year range
PlausibleYears(s) ==
    {d \in 1..Len(s) :
        YearTokenAt(s, d) /\ StrToInt(SubSeq(s, d, d + 3)) \in 1881..2029}

\* C22 (as claimed): for every filename that contains exactly one 4-digit
\* token in the plausible year range (1881 to 2029) and no season/episode
\* marker (no earlier strategy of the cascade, extension, inline or folder
\* season/episode or absolute numbering, took the file), parse_filename
\* returns type movie with year equal to that token.
C22_MovieYear ==
    (/\ Parsed
     /\ Cardinality(PlausibleYears(rn.path.name)) = 1
     /\ rn.parsed[1].g_strategy \in {"movie", "fallback"}) =>
        /\ Info.type = "movie"
        /\ "year" \in DOMAIN Info
        /\ \A d \in PlausibleYears(rn.path.name) :
              Info.year = StrToInt(SubSeq(rn.path.name, d, d + 3))

\* no strategy of parse_filename applies to the path
NoStrategyMatches(path) ==
    /\ parse_extension(path) = <<>>
    /\ parse_standard(path) = <<>>
    /\ parse_alternate(path) = <<>>
    /\ parse_folder(path) = <<>>
    /\ parse_anime(path) = <<>>
    /\ parse_movie(path) = <<>>

\* C25: parse_filename is total: for every path it returns an identity with
\* a type among movie, tv, book, audiobook and unknown and with a title; when
\* no strategy matches, the identity is of type unknown, its title is the
\* stem of the filename verbatim, and it has no other field.
C25_ParseTotal ==
    Parsed =>
        /\ "type" \in DOMAIN Info
        /\ Info.type \in {"movie", "tv", "book", "audiobook", "unknown"}
        /\ "title" \in DOMAIN Info
        /\ NoStrategyMatches(rn.path) =>
              /\ Info.type = "unknown"
              /\ Info.title = Stem(rn.path.name)
              /\ DOMAIN Info = {"type", "title"}

\* C25 witness: a file in a plain folder whose stem holds a dot matched no
\* strategy and got its stem, dot included, as title
C25_Witness ==
    /\ Parsed
    /\ NoStrategyMatches(rn.path)
    /\ rn.path.dir # <<>>
    /\ \E i \in 1..Len(Stem(rn.path.name)) : Stem(rn.path.name)[i] = "."
    /\ Info = [type |-> "unknown", title |-> Stem(rn.path.name)]

\* what each strategy makes of the path, in the order of the claim:
\* extension, standard SxxExx, alternate NxNN, folder context, anime
\* numbering, movie year
Strategies(path) ==
    <<parse_extension(path), parse_standard(path), parse_alternate(path),
      parse_folder(path), parse_anime(path), parse_movie(path)>>

\* the stem holds an inline SxxExx marker after a non-empty title
HasMarker(s) == \E k \in 1..Len(s) : MarkerAt(s, k)

\* the season and the episode of the first marker of s
FirstMarker(s) == Min({k \in 1..Len(s) : MarkerAt(s, k)})

MarkerSeason(s) ==
    LET k == FirstMarker(s)
    IN StrToInt(SubSeq(s, k + 3, k + 2 + RunLen(s, k + 3, Digits)))

MarkerEpisode(s) ==
    LET q == FirstMarker(s) + 4 + RunLen(s, FirstMarker(s) + 3, Digits)
    IN StrToInt(SubSeq(s, q, q + DigitsUpTo2(s, q) - 1))

SeasonTokenAt(s, i) ==
    /\ i + 5 <= Len(s)
    /\ Lower(SubSeq(s, i, i + 5)) = <<"s", "e", "a", "s", "o", "n">>
    /\ DigitsAfterWs(s, i + 6) # <<>>

SeasonTokens(s) == {i \in 1..Len(s) : SeasonTokenAt(s, i)}

\* s without a trailing '(YYYY)'
WithoutYear(s) ==
    IF Len(s) >= 6 /\ IsYearParen(SubSeq(s, Len(s) - 5, Len(s)))
    THEN SubSeq(s, 1, Len(s) - 6)
    ELSE s

\* the values of the numbers of one or two digits in s
ShortNumbers(s) ==
    {StrToInt(SubSeq(s, q, q + RunLen(s, q, Digits) - 1)) :
        q \in {q \in 1..Len(s) : /\ RunLen(s, q, Digits) \in {1, 2}
                                 /\ (q = 1 \/ s[q - 1] \notin Digits)}}

\* C29 (as claimed): a file without an inline season/episode marker is
\* classified tv by the folder-context strategy only when its parent
\* directory name contains a 'season N' token; in that case season = N, the
\* title is the grandparent directory name with a trailing '(YYYY)' removed,
\* and the episode is a 1-2 digit number found in the stem, or 1 when none is
\* found.
C29_FolderContext ==
    (Parsed /\ rn.parsed[1].g_strategy = "folder") =>
        LET parent == ParentName(rn.path)
        IN /\ Info.type = "tv"
           /\ SeasonTokens(parent) # {}
           /\ Info.season =
                 StrToInt(DigitsAfterWs(parent, Min(SeasonTokens(parent)) + 6))
           /\ Info.title = Strip(WithoutYear(GrandparentName(rn.path)))
           /\ Info.episode \in ShortNumbers(Stem(rn.path.name)) \cup {1}

---------------------------------------------------------------------------
(* src/src/renamer.py: Renamer.propose_new_path.  A Python value is a      *)
(* record tagged with its type, a dict is a function from its keys to      *)
(* values, and a template is a sequence of literal texts and replacement   *)
(* fields.                                                                 *)

PyStr(s) == [t |-> "str", v |-> s]
PyInt(n) == [t |-> "int", v |-> n]
PyBool(b) == [t |-> "bool", v |-> b]
PyNone == [t |-> "none"]

Lit(s) == [lit |-> s]
Field(k) == [key |-> k]

\* the values of identity['type'] as text
TypeChars(type) ==
    CASE type = "tv" -> <<"t", "v">>
      [] type = "movie" -> <<"m", "o", "v", "i", "e">>
      [] type = "book" -> <<"b", "o", "o", "k">>
      [] type = "audiobook" -> <<"a", "u", "d", "i", "o", "b", "o", "o", "k">>
      [] type = "unknown" -> <<"u", "n", "k", "n", "o", "w", "n">>

\* the dict parse_filename returns, from the identity record of the model
as_dict(info) ==
    [k \in DOMAIN info |->
        IF k = "type" THEN PyStr(TypeChars(info[k]))
        ELSE IF k \in {"title", "episode_title"} THEN PyStr(info[k])
        ELSE IF k = "is_audio" THEN PyBool(info[k])
        ELSE PyInt(info[k])]

\* dict.update
dict_update(d, other) == other @@ d

\* bool(v)
Truthy(v) ==
    CASE v.t = "none" -> FALSE
      [] v.t = "str" -> v.v # <<>>
      [] v.t = "int" -> v.v # 0
      [] v.t = "bool" -> v.v

\* int(v): the value, or raised when Python raises ValueError / TypeError
py_int(v) ==
    CASE v.t = "int" -> [raised |-> FALSE, value |-> v.v]
      [] v.t = "bool" -> [raised |-> FALSE, value |-> IF v.v THEN 1 ELSE 0]
      [] v.t = "str" ->
            IF v.v # <<>> /\ \A i \in 1..Len(v.v) : v.v[i] \in Digits
            THEN [raised |-> FALSE, value |-> StrToInt(v.v)]
            ELSE [raised |-> TRUE, value |-> 0]
      [] OTHER -> [raised |-> TRUE, value |-> 0]

\* str(n)
IntStr(n) == IF n < 0 THEN <<"-">> \o IntToStr(-n) ELSE IntToStr(n)

\* a variant without the zero padding: f"{n}"
Pad2_unpadded(n) == IntStr(n)

\* f"{n:02d}"
Pad2(n) == IF 0 <= n /\ n < 10 THEN <<"0">> \o IntToStr(n) ELSE IntStr(n)

\* format(v, '') of a replacement field
format_value(v) ==
    CASE v.t = "str" -> v.v
      [] v.t = "int" -> IntStr(v.v)
      [] v.t = "bool" -> IF v.v THEN <<"T", "r", "u", "e">> ELSE <<"F", "a", "l", "s", "e">>
      [] OTHER -> <<"N", "o", "n", "e">>

\* template.format(**context): the text, or raised when a replacement field
\* names a key the context does not have (KeyError)
RECURSIVE format(_, _)
format(template, context) ==
    IF template = <<>> THEN [raised |-> FALSE, value |-> <<>>]
    ELSE LET part == Head(template)
             rest == format(Tail(template), context)
         IN IF "lit" \in DOMAIN part
            THEN [raised |-> rest.raised, value |-> part.lit \o rest.value]
            ELSE IF part.key \notin DOMAIN context
            THEN [raised |-> TRUE, value |-> <<>>]
            ELSE [raised |-> rest.raised,
                  value |-> format_value(context[part.key]) \o rest.value]

\* str.replace(old, new)
RECURSIVE Replace(_, _, _)
Replace(s, old, new) ==
    IF Len(s) < Len(old) THEN s
    ELSE IF SubSeq(s, 1, Len(old)) = old
    THEN new \o Replace(SubSeq(s, Len(old) + 1, Len(s)), old, new)
    ELSE <<s[1]>> \o Replace(Tail(s), old, new)

\* str.split('/')
RECURSIVE Split(_)
Split(s) ==
    LET I == {i \in 1..Len(s) : s[i] = "/"}
    IN IF I = {} THEN <<s>>
       ELSE <<SubSeq(s, 1, Min(I) - 1)>> \o Split(SubSeq(s, Min(I) + 1, Len(s)))

IsPart(x) == x # <<>> /\ x # <<".">>

\* Path(text): the parts between slashes, empty parts and '.' left out;
\* root tells a path that starts at the filesystem root
PathOf(text) ==
    LET parts == SelectSeq(Split(text), IsPart)
    IN [root |-> text # <<>> /\ text[1] = "/",
        dir |-> IF parts = <<>> THEN <<>> ELSE SubSeq(parts, 1, Len(parts) - 1),
        name |-> IF parts = <<>> THEN <<>> ELSE parts[Len(parts)]]

\* Path(current_path.name)
NameOnly(current_path) ==
    [root |-> FALSE, dir |-> <<>>, name |-> current_path.name]

\* context = metadata.copy(); ext and the setdefault calls
context_defaults(current_path, metadata) ==
    ([ext |-> PyStr(Suffix(current_path.name))] @@ metadata)
    @@ [title |-> PyStr(<<"U", "n", "k", "n", "o", "w", "n">>), year |-> PyStr(<<>>),
        resolution |-> PyStr(<<>>), group |-> PyStr(<<>>)]

\* zero-pad context[key] when present and not None, else '00'
padded(context, key) ==
    IF key \in DOMAIN context /\ context[key] # PyNone
    THEN LET n == py_int(context[key])
         IN [raised |-> n.raised, value |-> PyStr(Pad2(n.value))]
    ELSE [raised |-> FALSE, value |-> PyStr(<<"0", "0">>)]

\* the context after the season and episode have been padded
context_numbers(context) ==
    [season |-> padded(context, "season").value,
     episode |-> padded(context, "episode").value] @@ context

\* Episode Title Default
context_episode_title(context) ==
    IF "episode_title" \notin DOMAIN context
       \/ ~Truthy(context["episode_title"])
    THEN [episode_title |->
             PyStr(<<"E", "p", "i", "s", "o", "d", "e", " ">> \o context["episode"].v)] @@ context
    ELSE context

\* the substitution context built before the template is chosen
render_context(current_path, metadata) ==
    context_episode_title(
        context_numbers(context_defaults(current_path, metadata)))

\* int() raised while the context was built
context_raised(current_path, metadata) ==
    \/ padded(context_defaults(current_path, metadata), "season").raised
    \/ padded(context_defaults(current_path, metadata), "episode").raised

\* metadata.get(key)
dict_get(d, key) == IF key \in DOMAIN d THEN d[key] ELSE PyNone

IsBookType(type) ==
    type \in {PyStr(TypeChars("book")), PyStr(TypeChars("audiobook"))}

\* the template for the type of the identity, <<>> when the type is none of
\* movie, tv, book, audiobook
select_template(config, metadata) ==
    LET type == dict_get(metadata, "type")
    IN IF type = PyStr(TypeChars("movie")) THEN <<config.MOVIE_TEMPLATE>>
       ELSE IF type = PyStr(TypeChars("tv")) THEN <<config.TV_TEMPLATE>>
       ELSE IF IsBookType(type)
       THEN IF type = PyStr(TypeChars("audiobook"))
               \/ Truthy(dict_get(metadata, "is_audio"))
            THEN <<config.AUDIOBOOK_TEMPLATE>>
            ELSE <<config.BOOK_TEMPLATE>>
       ELSE <<>>

\* context['author'] = context.get('author', 'Unknown Author')
book_author(context) ==
    context @@ [author |-> PyStr(<<"U", "n", "k", "n", "o", "w", "n", " ", "A", "u", "t", "h", "o", "r">>)]

\* the context the template of the type is formatted with
template_context(context, metadata) ==
    IF IsBookType(dict_get(metadata, "type")) THEN book_author(context)
    ELSE context

\* the clean-up of the formatted text, and Path(rel.strip())
cleanup(rel) ==
    PathOf(Strip(Replace(Replace(Replace(rel, <<"(", ")">>, <<>>),
                                 <<" ", " ">>, <<" ">>),
                         <<":">>, <<" ", "-">>)))

\* a variant in which context is the dict of the caller, not a copy of it
metadata_after_alias(metadata, context) == context

\* the dict of the caller after the call: context is a copy of it
metadata_after(metadata, context) == metadata

\* a variant that lets the KeyError leave the function
key_error_reraise(current_path) == [raised |-> TRUE, value |-> <<>>]

\* except KeyError: fall back to the original filename
key_error_result(current_path) ==
    [raised |-> FALSE, value |-> NameOnly(current_path)]

\* else: return Path(current_path.name)
other_type_result(current_path) ==
    [raised |-> FALSE, value |-> NameOnly(current_path)]

\* the try block: format the template of the type and clean the text up
render(current_path, metadata, config, context) ==
    LET template == select_template(config, metadata)
    IN IF template = <<>> THEN other_type_result(current_path)
       ELSE LET rel == format(template[1], context)
            IN IF rel.raised THEN key_error_result(current_path)
               ELSE [raised |-> FALSE, value |-> cleanup(rel.value)]

\* Renamer.propose_new_path: what the call returns or that it raised, the
\* dict of the caller after the call, and the context it built
propose_new_path(current_path, metadata, config) ==
    IF context_raised(current_path, metadata)
    THEN [raised |-> TRUE, value |-> <<>>,
          metadata |-> metadata_after(metadata,
                          context_defaults(current_path, metadata)),
          g_context |-> <<>>]
    ELSE LET context == template_context(
                            render_context(current_path, metadata), metadata)
             r == render(current_path, metadata, config, context)
         IN [raised |-> r.raised, value |-> r.value,
             metadata |-> metadata_after(metadata, context),
             g_context |-> <<context>>]

---------------------------------------------------------------------------
(* src/src/config.py: the naming templates; src/src/api.py: the callers of *)
(* propose_new_path.                                                       *)

\* the default templates
DefaultConfig ==
    [MOVIE_TEMPLATE |->
       <<Field("title"),
         Lit(<<" ", "(">>),
         Field("year"),
         Lit(<<")", "/">>),
         Field("title"),
         Lit(<<" ", "(">>),
         Field("year"),
         Lit(<<")">>),
         Field("ext")>>,
     TV_TEMPLATE |->
       <<Field("title"),
         Lit(<<"/", "S", "e", "a", "s", "o", "n", " ">>),
         Field("season"),
         Lit(<<"/">>),
         Field("title"),
         Lit(<<" ", "-", " ", "s">>),
         Field("season"),
         Lit(<<"e">>),
         Field("episode"),
         Field("ext")>>,
     BOOK_TEMPLATE |->
       <<Field("author"),
         Lit(<<"/">>),
         Field("title"),
         Lit(<<"/">>),
         Field("title"),
         Field("ext")>>,
     AUDIOBOOK_TEMPLATE |->
       <<Field("author"),
         Lit(<<"/">>),
         Field("title"),
         Lit(<<"/">>),
         Field("title"),
         Field("ext")>>]

\* templates saved by the user: the TV template names the episode title, the
\* movie template a key no identity has, the book template only the title
UserConfig ==
    [MOVIE_TEMPLATE |->
       <<Field("title"),
         Lit(<<" ", "[">>),
         Field("quality"),
         Lit(<<"]">>),
         Field("ext")>>,
     TV_TEMPLATE |->
       <<Field("title"),
         Lit(<<"/">>),
         Field("title"),
         Lit(<<" ", "-", " ">>),
         Field("season"),
         Lit(<<"x">>),
         Field("episode"),
         Lit(<<" ", "-", " ">>),
         Field("episode_title"),
         Field("ext")>>,
     BOOK_TEMPLATE |->
       <<Field("title"),
         Field("ext")>>,
     AUDIOBOOK_TEMPLATE |->
       <<Field("author"),
         Lit(<<"/">>),
         Field("title"),
         Lit(<<"/">>),
         Field("title"),
         Field("ext")>>]

Configs == {DefaultConfig, UserConfig}

\* the files whose identity is rendered
RenderPaths ==
    {Path(<<>>, <<"A", ".", "S", "0", "1", "E", "0", "2", ".", "A", ".", "m", "k", "v">>),
     Path(<<<<"S", "h", "o", "w", " ", "(", "2", "0", "2", "0", ")">>, <<"S", "e", "a", "s", "o", "n", " ", "2">>>>, <<"E", "5", ".", "m", "k", "v">>),
     Path(<<>>, <<"A", ".", "1", "9", "9", "9", ".", "m", "k", "v">>),
     Path(<<>>, <<"A", ".", "S", "1", "2", "E", "1", "0", ".", "m", "k", "v">>),
     Path(<<>>, <<"A", ".", "e", "p", "u", "b">>),
     Path(<<>>, <<"A", ".", "M", "P", "3">>),
     Path(<<<<"F", "i", "l", "m", "s">>>>, <<"A", ".", "m", "k", "v">>)}

\* an empty dict
EmptyDict == [k \in {} |-> PyNone]

\* selected candidates: none, a movie with a colon in its title, a record
\* with null numbers and an empty episode title, a book with its author, a
\* type the renamer does not know, a null episode title and year, and a
\* movie whose title has a colon between blanks
Candidates ==
    {EmptyDict,
     [type |-> PyStr(TypeChars("movie")), title |-> PyStr(<<"T", ":", " ", "A">>),
      year |-> PyInt(2001)],
     [season |-> PyNone, episode |-> PyNone, episode_title |-> PyStr(<<>>)],
     [type |-> PyStr(TypeChars("book")), author |-> PyStr(<<"A", "u">>)],
     [type |-> PyStr(<<"g", "a", "m", "e">>)],
     [episode_title |-> PyNone, year |-> PyNone],
     [type |-> PyStr(TypeChars("movie")),
      title |-> PyStr(<<"T", " ", ":", " ", "A">>)]}

\* keys the dict of a caller does not have: parse_filename sets type and
\* title, a caller that builds the dict itself may leave any key out
DroppedKeys == {{}, {"title"}, {"season", "episode", "episode_title"},
                {"type"}}

\* the dict without the keys of K
WithoutKeys(d, K) == [k \in DOMAIN d \ K |-> d[k]]

\* metadata = parse_filename(path); metadata.update(selected_candidate)
RnSelect(candidate, dropped, config) ==
    /\ rn.pc = "parsed"
    /\ rn' = [rn EXCEPT
                !.pc = "selected",
                !.config = <<config>>,
                !.metadata = <<WithoutKeys(
                                  dict_update(as_dict(rn.parsed[1].info),
                                              candidate), dropped)>>]
    /\ UNCHANGED <<move_vars, scan>>

\* new_relative = renamer.propose_new_path(path, metadata)
RnPropose ==
    /\ rn.pc = "selected"
    /\ LET r == propose_new_path(rn.path, rn.metadata[1], rn.config[1])
       IN rn' = [rn EXCEPT !.pc = "proposed",
                           !.given = rn.metadata,
                           !.metadata = <<r.metadata>>,
                           !.out = <<r>>]
    /\ UNCHANGED <<move_vars, scan>>

\* propose_new_path called again with the same path and dict
RnProposeAgain ==
    /\ rn.pc = "proposed"
    /\ LET r == propose_new_path(rn.path, rn.metadata[1], rn.config[1])
       IN rn' = [rn EXCEPT !.pc = "done",
                           !.metadata = <<r.metadata>>,
                           !.out = Append(rn.out, r)]
    /\ UNCHANGED <<move_vars, scan>>

InitRender == InitRn(RenderPaths)

NextRender ==
    \/ RnParse
    \/ \E candidate \in Candidates, dropped \in DroppedKeys,
          config \in Configs : RnSelect(candidate, dropped, config)
    \/ RnPropose
    \/ RnProposeAgain

SpecRender == InitRender /\ [][NextRender]_vars

---------------------------------------------------------------------------
(* Properties of propose_new_path.                                         *)

Proposed == rn.pc \in {"proposed", "done"}

KnownTypes == {PyStr(TypeChars(type)) : type \in {"movie", "tv", "book", "audiobook"}}

\* the keys the replacement fields of a template name
FieldKeys(template) ==
    {template[i].key : i \in {i \in 1..Len(template) : "key" \in DOMAIN template[i]}}

\* the type of the identity is none of movie, tv, book, audiobook
OtherType == dict_get(rn.given[1], "type") \notin KnownTypes

\* the template selected for the identity names a key the context lacks
MissingKey ==
    /\ ~OtherType
    /\ rn.out[1].g_context # <<>>
    /\ ~(FieldKeys(select_template(rn.config[1], rn.given[1])[1])
            \subseteq DOMAIN rn.out[1].g_context[1])

\* C24: when the type of the identity is not movie, tv, book or audiobook,
\* and when the selected template names a substitution key that the context
\* does not have, propose_new_path returns the original filename without any
\* directory, and no error leaves the function.
C24_FallbackToFilename ==
    (Proposed /\ (OtherType \/ MissingKey)) =>
        /\ ~rn.out[1].raised
        /\ rn.out[1].value = [root |-> FALSE, dir |-> <<>>, name |-> rn.path.name]

\* a movie in a directory, rendered with a template that names 'quality'
C24_Witness ==
    /\ Proposed
    /\ MissingKey
    /\ rn.path.dir # <<>>
    /\ rn.out[1].value.name = rn.path.name

\* an identity of a type the renamer does not know, for a file in a directory
C24_WitnessOtherType ==
    /\ Proposed
    /\ OtherType
    /\ "type" \in DOMAIN rn.given[1]
    /\ rn.path.dir # <<>>
    /\ rn.out[1].value.name = rn.path.name

\* the context the first call built
Context == rn.out[1].g_context[1]

\* n written with at least two digits
TwoDigits(n) ==
    IF n < 10 THEN <<DigitChar(0), DigitChar(n)>> ELSE IntToStr(n)

\* the identity has the key and its value is not null
HasValue(key) == key \in DOMAIN rn.given[1] /\ rn.given[1][key] # PyNone

\* context[key] is the number of the identity in two digits, '00' without one
PaddedIn(key) ==
    Context[key] = PyStr(IF HasValue(key) THEN TwoDigits(rn.given[1][key].v)
                         ELSE <<"0", "0">>)

\* C30: in the rendering context season and episode are zero-padded to two
\* digits and are '00' when absent or null; an episode title that is missing
\* or empty becomes 'Episode ' followed by the padded episode; a missing
\* title becomes 'Unknown'; and for a book or audiobook a missing author
\* becomes 'Unknown Author'.  Values that are present are kept.
C30_ContextDefaults ==
    (Proposed /\ rn.out[1].g_context # <<>>) =>
        /\ PaddedIn("season")
        /\ PaddedIn("episode")
        /\ Context["episode_title"] =
              IF HasValue("episode_title") /\ rn.given[1]["episode_title"].v # <<>>
              THEN rn.given[1]["episode_title"]
              ELSE PyStr(<<"E", "p", "i", "s", "o", "d", "e", " ">> \o Context["episode"].v)
        /\ Context["title"] =
              IF "title" \in DOMAIN rn.given[1] THEN rn.given[1]["title"]
              ELSE PyStr(<<"U", "n", "k", "n", "o", "w", "n">>)
        /\ dict_get(rn.given[1], "type") \in
              {PyStr(TypeChars("book")), PyStr(TypeChars("audiobook"))} =>
                 Context["author"] =
                    IF "author" \in DOMAIN rn.given[1] THEN rn.given[1]["author"]
                    ELSE PyStr(<<"U", "n", "k", "n", "o", "w", "n", " ", "A", "u", "t", "h", "o", "r">>)

\* a tv identity with season 1 and episode 2, without a title and with a null
\* episode title
C30_Witness ==
    /\ Proposed
    /\ dict_get(rn.given[1], "type") = PyStr(TypeChars("tv"))
    /\ dict_get(rn.given[1], "season") = PyInt(1)
    /\ dict_get(rn.given[1], "episode") = PyInt(2)
    /\ "title" \notin DOMAIN rn.given[1]
    /\ "episode_title" \in DOMAIN rn.given[1]
    /\ ~HasValue("episode_title")
    /\ Context["season"] = PyStr(<<"0", "1">>)
    /\ Context["episode_title"] = PyStr(<<"E", "p", "i", "s", "o", "d", "e", " ", "0", "2">>)
    /\ Context["title"] = PyStr(<<"U", "n", "k", "n", "o", "w", "n">>)

\* an audiobook without an author
C30_WitnessAuthor ==
    /\ Proposed
    /\ dict_get(rn.given[1], "type") = PyStr(TypeChars("audiobook"))
    /\ "author" \notin DOMAIN rn.given[1]
    /\ Context["author"] = PyStr(<<"U", "n", "k", "n", "o", "w", "n", " ", "A", "u", "t", "h", "o", "r">>)
    /\ Context["season"] = PyStr(<<"0", "0">>)

---------------------------------------------------------------------------
(* Undo: the order in which the records of the batch are processed         *)

\* C26: undo_last_batch processes the records of the batch in the reverse of
\* the order in which they were recorded: at every moment of the call the
\* k-th record attempted is the k-th from the end of the batch, so of any two
\* records the one recorded later is attempted before the one recorded
\* earlier.
C26_UndoReverseOrder ==
    (g_undo # <<>> /\ g_undo[1].hist # <<>>) =>
        LET ops == g_undo[1].hist[1].operations
            attempted == g_undo[1].attempted
        IN /\ Len(attempted) <= Len(ops)
           /\ \A k \in 1..Len(attempted) :
                 attempted[k] = ops[Len(ops) + 1 - k]

\* an undo in the middle of a batch of several different records: the record
\* recorded last has been attempted, the one recorded first has not
C26_Witness ==
    /\ pc = "undo_loop"
    /\ g_undo # <<>>
    /\ LET ops == g_undo[1].hist[1].operations
       IN /\ Len(ops) >= 2
          /\ ops[1] # ops[Len(ops)]
          /\ Len(g_undo[1].attempted) = 1
          /\ g_undo[1].attempted[1] = ops[Len(ops)]
          /\ Head(undo_ops) = ops[Len(ops) - 1]

---------------------------------------------------------------------------
(* Execute: the order of the steps of one item                             *)

\* the records of item k in moved
RecordsOf(k) == {i \in 1..Len(moved) : moved[i].g_item = k}

\* the item in hand has its associated files discovered, from the files as
\* they are now, and its main file is still at its source, not yet moved
DiscoveredBeforeMove ==
    pc = "exec_main" =>
        /\ Exists(fs, cur[1].original)
        /\ cur[1].associated_files = find_associated_files(fs, cur[1].original)
        /\ RecordsOf(cur[1].g_item) = {}

\* the moves are recorded item after item, in the order of the request, and
\* within an item the main file first
MovesInOrder ==
    /\ \A i, j \in 1..Len(moved) :
          i < j => /\ moved[i].g_item <= moved[j].g_item
                   /\ (moved[i].g_item = moved[j].g_item => moved[j].associated)
    /\ \A i \in 1..Len(moved) :
          /\ moved[i].g_item < request.next
          /\ moved[i].associated =>
                \E h \in 1..(i - 1) : /\ moved[h].g_item = moved[i].g_item
                                      /\ ~moved[h].associated
    /\ pc \in {"exec_main", "exec_assoc"} => cur[1].g_item = request.next - 1

\* the step that cleans the source directory of the item in hand
CleanupStep == pc = "exec_assoc" /\ pc' = "exec_item"

\* C27: for each item of an execute batch, the associated files are
\* discovered while the main file is still at its source, then the main file
\* is moved, then each associated file, and the source directory is cleaned
\* up only after all of them; the items of a batch are handled one after
\* another, in the order of the request, never interleaved.
C27_ExecuteItemOrder ==
    /\ [](pc \in {"exec_item", "exec_main", "exec_assoc", "exec_record"} =>
             DiscoveredBeforeMove /\ MovesInOrder)
    /\ [][CleanupStep =>
            /\ \E i \in RecordsOf(cur[1].g_item) :
                  moved[i].src = cur[1].original /\ ~moved[i].associated
            /\ \A assoc \in cur[1].associated_files :
                  \E i \in RecordsOf(cur[1].g_item) :
                     moved[i].src = assoc /\ moved[i].associated
            /\ fs' = fs /\ moved' = moved
            /\ \A f \in {cur[1].original} \cup cur[1].associated_files :
                  ~Exists(fs, f)]_vars

\* a batch of two items is done: the first item had its main file and an
\* associated file moved, in this order, and its source directory cleaned,
\* before the main file of the second item was moved
C27_Witness ==
    /\ pc = "exec_record"
    /\ Len(request.files) = 2
    /\ Len(moved) >= 3
    /\ moved[1].g_item = 1 /\ ~moved[1].associated
    /\ moved[2].g_item = 1 /\ moved[2].associated
    /\ moved[Len(moved)].g_item = 2
    /\ g_clean # <<>>

---------------------------------------------------------------------------
(* Rendering: the text of the relative path                                *)

\* the parts of the path the first call returned, directories first
PartsOf(value) == Append(value.dir, value.name)

\* C31: for every identity of a known type, the relative path that
\* propose_new_path renders contains no ':', no empty '()' pair and no two
\* consecutive spaces, and has neither leading nor trailing whitespace.
C31_SanitizedPath ==
    (Proposed /\ ~OtherType /\ ~rn.out[1].raised) =>
        LET parts == PartsOf(rn.out[1].value)
        IN /\ \A i \in 1..Len(parts) :
                 /\ ~IsSubstring(<<":">>, parts[i])
                 /\ ~IsSubstring(<<"(", ")">>, parts[i])
                 /\ ~IsSubstring(<<" ", " ">>, parts[i])
           /\ parts[1] = <<>> \/ parts[1][1] # " "
           /\ LET last == parts[Len(parts)]
              IN last = <<>> \/ last[Len(last)] # " "

---------------------------------------------------------------------------
(* Undo: pruning of the destination directories                            *)

\* an undo call has restored a file and pruned from its former directory
UndoPruned == pc \in {"undo_loop", "undo_return"} /\ g_clean # <<>>

C32_WitnessStops ==
    /\ UndoPruned
    /\ g_clean[1].path = DM
    /\ \E p \in g_clean[1].files : p.dir = DM
    /\ g_clean[1].before = g_clean[1].after

---------------------------------------------------------------------------
(* Execute on a directory that holds two media files, the name of one      *)
(* being the stem of the other followed by a blank ('Alien.mkv' and        *)
(* 'Alien 3.mkv'), and a subtitle; and on a media file of a directory that *)
(* is not below the configured source root (a scan takes any path the      *)
(* request names).                                                         *)

\* src/src/scanner.py: ALL_EXTENSIONS, in the alphabet of the model
ALL_EXTENSIONS == {<<".", "m">>}

\* path.suffix.lower() in ALL_EXTENSIONS: the file can be the main file of a
\* scan result and of an execute item
IsMedia(path) == Suffix(path.name) \in ALL_EXTENSIONS

SequelFiles ==
    << Path(SA, <<"X", ".", "m">>),
       Path(SA, <<"X", " ", "2", ".", "m">>),
       Path(SA, <<"X", ".", "s">>),
       Path(<<"in", "d">>, <<"Z", ".", "m">>) >>

\* requests for one or two of the media files
SequelRequests ==
    UNION {[1..n -> [original : {SequelFiles[1], SequelFiles[2],
                                 SequelFiles[4]},
                     target : {Path(DM, <<"Y", ".", "m">>)}]] : n \in 1..2}

InitSequel ==
    /\ \E S \in SUBSET (1..Len(SequelFiles)) :
          LET f == [p \in {SequelFiles[i] : i \in S} |->
                       CHOOSE i \in S : SequelFiles[i] = p]
          IN /\ fs = f
             /\ dirs = {<<>>, SRC, DST} \cup DirsOf(f)
    /\ source_root \in {{}, {SRC}}
    /\ history = <<>>
    /\ ledger = <<>>
    /\ pc = "idle"
    /\ request = <<>>
    /\ cur = <<>>
    /\ moved = <<>>
    /\ errors = <<>>
    /\ undo_ops = <<>>
    /\ undo_result = <<>>
    /\ nExec = 0
    /\ nEnv = 0
    /\ g_move = <<>>
    /\ g_clean = <<>>
    /\ g_undo = <<>>
    /\ scan = ScanOff /\ rn = RnOff

NextSequel ==
    \/ \E req \in SequelRequests : ExecStart(req)
    \/ ExecItem
    \/ ExecMoveMain
    \/ ExecMoveAssoc
    \/ ExecClean
    \/ ExecRecord
    \/ ExecReturn

SpecSequel == InitSequel /\ [][NextSequel]_vars

\* C33: a file whose extension is in the known media set is never treated as
\* an associated file of another main file: no media file is among the
\* associated files discovered for an item, and no file that the request
\* names as a main file is moved as the associate of another.
C33_MediaNeverAssociated ==
    /\ pc \in {"exec_main", "exec_assoc"} =>
          \A assoc \in cur[1].associated_files : ~IsMedia(assoc)
    /\ \A i \in 1..Len(moved) :
          moved[i].associated =>
             /\ ~IsMedia(moved[i].src)
             /\ \A k \in 1..Len(request.files) :
                   request.files[k].original # moved[i].src

---------------------------------------------------------------------------
(* Execute: what the records of the ledger say                             *)

\* C34: every move record that execute writes to the undo ledger, for a main
\* file and for an associated file alike, has as dest the path at which the
\* moved file landed, the path move_file returned.
C34_RecordedDestIsLanded ==
    \A b \in 1..Len(ledger) :
        \A i \in 1..Len(ledger[b].operations) :
            ledger[b].operations[i].dest = ledger[b].operations[i].g_final

---------------------------------------------------------------------------
(* Scan: every file is processed once                                      *)

\* the files of the directory groups the loop has finished
GroupsDone ==
    UNION {{scan.files_by_dir[k].files[j] :
               j \in 1..Len(scan.files_by_dir[k].files)} :
           k \in 1..Min({scan.g - 1, Len(scan.files_by_dir)})}

\* C35: across Phase 1 and Phase 2 every candidate file of a directory group
\* is processed exactly once: process_file is started for a file only if it
\* was never started for it before, in either phase; when the loop leaves a
\* group every file of the group has been processed; and when the scan
\* returns, the number of results plus the number of dropped files is the
\* number of candidate files.
C35_EachFileOnce ==
    /\ [][\A f \in FileIds :
             (scan.pc # "off" /\ scan'.pc # "off"
                 /\ scan'.task[f] = "waiting" /\ scan.task[f] # "waiting")
             => (scan.task[f] = "none" /\ f \in ScanTargets)]_vars
    /\ [](scan.pc \in {"group", "finish", "done"} =>
             /\ \A f \in GroupsDone : scan.task[f] = "done"
             /\ \A f \in FileIds \ GroupsDone : scan.task[f] = "none")
    /\ [](scan.pc = "done" =>
             Len(scan.files) + Cardinality(scan.failed)
                 = Cardinality(ScanTargets))

\* a scan of a group of three files has returned: Phase 1 took the three,
\* Phase 2 found none left, and the three are accounted for
C35_Witness ==
    /\ scan.pc = "done"
    /\ Len(scan.files_by_dir) = 1
    /\ Cardinality(ScanTargets) = 3
    /\ \A f \in ScanTargets : scan.phase[f] = 1 /\ scan.task[f] = "done"
    /\ Len(scan.files) + Cardinality(scan.failed) = 3

\* d is below r, and is not r
StrictDescendant(d, r) == Len(d) > Len(r) /\ SubSeq(d, 1, Len(r)) = r

\* C36: when a source root is configured, every directory removed while an
\* execute batch is served is a strict descendant of the source root.
C36_CleanupWithinSourceRoot ==
    [][(Executing /\ source_root # {}) =>
          \A d \in dirs \ dirs' :
              \E r \in source_root : StrictDescendant(d, r)]_vars
---------------------------------------------------------------------------
(* Undo: the counts of the report                                          *)

\* C37: in every undo of a non-empty history each record of the undone batch
\* is counted exactly once, as restored or as failed: while the loop runs the
\* two counts and the records still to process add up to the number of
\* records of the batch, and in the report restored_count + failure_count is
\* that number.
C37_UndoCountsEveryRecord ==
    (g_undo # <<>> /\ g_undo[1].hist # <<>>
        /\ pc \in {"undo_loop", "undo_return"}) =>
        LET ops == g_undo[1].hist[1].operations
            res == undo_result[1]
        IN /\ res.restored_count = Len(g_undo[1].attempted) - res.failure_count
           /\ Len(g_undo[1].attempted) + Len(undo_ops) = Len(ops)
           /\ pc = "undo_return" =>
                  res.restored_count + res.failure_count = Len(ops)

\* C37 witness: the report of an undo of a batch of several records, some
\* counted as restored and some as failed
C37_Witness ==
    /\ UndoDone
    /\ Len(g_undo[1].hist[1].operations) >= 2
    /\ undo_result[1].restored_count >= 1
    /\ undo_result[1].failure_count >= 1
    /\ undo_result[1].restored_count + undo_result[1].failure_count
          = Len(g_undo[1].hist[1].operations)
---------------------------------------------------------------------------
(* The ledger file and the history in memory                               *)

\* no call of execute or undo is under way, or one has just completed
BetweenOperations == pc \in {"idle", "exec_return", "undo_return"}

\* C38: after every completed record_batch and undo_last_batch, and so at any
\* point between two operations, the ledger file holds exactly the history
\* in memory: a process that restarts there reloads the same ordered list of
\* batches.
C38_LedgerFileIsHistory == BetweenOperations => ledger = history

\* C38 witness: on a full history that was loaded from the file a batch was
\* recorded, which dropped the oldest batch, and then undone; the file holds
\* the 49 batches the history is left with
C38_Witness ==
    /\ UndoDone
    /\ Len(g_undo[1].hist) = HistoryLimit
    /\ g_undo[1].hist[1].batch_id > 0
    /\ Len(history) = HistoryLimit - 1
    /\ ledger = history
    /\ ledger = Tail(g_undo[1].hist)
---------------------------------------------------------------------------
(* Termination of a scan.  scan_files and the process_file tasks run on    *)
(* one asyncio event loop, which runs every callback that is ready: a step *)
(* of the handler or of a task that stays possible is taken.  A provider   *)
(* call that returns or fails is the end of PfBody.  No fairness is put on *)
(* ScanStart: whether a scan is requested is up to the client.             *)

SpecScanFair ==
    /\ SpecScan
    /\ WF_vars(GroupStart)
    /\ WF_vars(P1Head)
    /\ \A f \in FileIds : WF_vars(PfAcquire(f))
    /\ \A f \in FileIds : WF_vars(PfBody(f))
    /\ WF_vars(P1Resume)
    /\ WF_vars(Phase2)
    /\ WF_vars(ScanFinish)

\* the process_file task of file f is in state s
TaskIs(f, s) == scan.pc # "off" /\ scan.task[f] = s

\* the loop over the directory groups is at point p of group g
AtGroup(p, g) == scan.pc = p /\ scan.g = g

===========================================================================
